---- MODULE Spec2Model ----
(***************************************************************************)
(* State-machine model of src/solar_system.py: the per-frame simulation    *)
(* SolarSystem.update / Player.update / Player.take_damage.                *)
(*                                                                         *)
(* Units.  Time is counted in tenths of a second (0.2 s = 2, 30.0 s = 300).*)
(* Probabilities are counted in thousandths (0.01 = 10).  Speeds of the    *)
(* weapon table are counted in hundredths.  The player's position and      *)
(* velocity live on a lattice of PosScale cells per world unit.            *)
(*                                                                         *)
(* Geometry.  Enemy, boss, power-up and projectile coordinates are real    *)
(* numbers driven by random speeds and angles; the model does not track    *)
(* them.  The outcome of every distance test of the frame is an input of   *)
(* the frame (fields contact, boss_contact, pickup, lineP, lineE, lineB,   *)
(* bombE, bombB of the input record).  Random draws and the wall clock     *)
(* (pygame.time.get_ticks) are inputs of the frame as well.                *)
(***************************************************************************)
EXTENDS Integers, Sequences, FiniteSets, TLC

VARIABLES
    player,            \* the Player object (a record of its fields)
    enemies,           \* SolarSystem.enemies (sequence of Enemy records)
    boss,              \* SolarSystem.boss (None or a BossEnemy record)
    next_boss_score,   \* SolarSystem.next_boss_score
    game_over,         \* SolarSystem.game_over
    powerups,          \* SolarSystem.powerups (sequence of PowerUp kinds)
    particles,         \* SolarSystem.particles (run-length: [n, lifetime])
    wave,              \* SolarSystem.wave
    wave_timer,        \* SolarSystem.wave_timer
    ENEMY_SPAWN_RATE,  \* module global, mutated by update (thousandths)
    MAX_ENEMIES,       \* module global, mutated by update
    clock,             \* last reading of pygame.time.get_ticks() (tenths of s)
    frames,            \* history: number of calls of SolarSystem.update so far
    sp_acc,            \* history: dt fed to Player.update since the last
                       \* super-power activation (saturates at the cooldown)
    cheat_pre,         \* history: the fields the cheat toggle writes, as they
                       \* were just before cheat mode was last switched on
    log                \* history: what the last call did (see NoLog)

vars == <<player, enemies, boss, next_boss_score, game_over, powerups,
          particles, wave, wave_timer, ENEMY_SPAWN_RATE, MAX_ENEMIES,
          clock, frames, sp_acc, cheat_pre, log>>

-----------------------------------------------------------------------------
(* Bounds of the model *)

PosScale == 20        \* lattice cells per world unit (cell = 0.05)
MaxFramesShoot == 5   \* frames of a run of SpecShoot
MaxFramesLife == 7    \* frames of a run of SpecLife
MaxFramesClock == 6   \* frames of a run of SpecClock
MaxFramesSuper == 8   \* frames of a run of SpecSuper
MaxLive == 3          \* enemies kept alive at once in the explored runs
MaxHorde == 5         \* the same, in the runs that exercise the super power
MaxShots == 3         \* projectiles in flight in the explored runs
MaxPickups == 1       \* power-ups lying in the world in the explored runs
MaxScore == 1500      \* score horizon of the explored runs
MaxWave == 3          \* wave horizon of the explored runs
MaxStep == 3          \* cells the player may leave the spawn point (per axis)
MaxFramesCheat == 6   \* frames of a run of SpecCheat
MaxFramesWave == 13   \* frames of a run of SpecWave
MaxWaveLong == 11     \* wave horizon of SpecWave
MaxCrowd == 13        \* enemies alive at once in SpecWave
MaxOverrun == 6       \* how far below zero an entity timer is followed
MaxFramesFire == 3    \* frames of a run of SpecFire
MaxFramesGrace == 5   \* frames after which a run of SpecGrace may end
MaxFramesRecharge == 7 \* frames of a run of SpecRecharge
MaxFramesKeys == 3    \* frames of a run of SpecKeys
MaxFramesPass == 5    \* frames of a run of SpecPass
MaxSince == 3         \* saturation of the time since a target was last hit
MaxFramesCooldown == 6 \* frames of a run of SpecCooldown
MaxDebt == 2          \* lives below zero followed in direct take_damage calls

-----------------------------------------------------------------------------
(* Program constants *)

\* Python's None in the boss slot (a record, so that it compares with a boss)
None == [type |-> "None"]
inf == 1000000                 \* float('inf')
INIT_SPAWN_RATE == 10          \* ENEMY_SPAWN_RATE = 0.01
INIT_MAX_ENEMIES == 10         \* MAX_ENEMIES = 10
SCORE_PER_HIT == 100
LASER_SPEED == 150             \* 1.5
POWERUP_DURATION == 100        \* 10.0 s
WAVE_DURATION == 300           \* 30.0 s
COMBO_TIMEOUT == 20            \* 2.0 s
SUPER_POWER_COOLDOWN == 100    \* 10.0 s
SUPER_POWER_DURATION == 20     \* 2.0 s
PLAYER_SPEED == (15 * PosScale) \div 100      \* 0.15
GRAVITY == (5 * PosScale) \div 10000          \* 0.0005
FLOAT_FORCE == (10 * PosScale) \div 10000     \* 0.001
POWERUP_TYPES == {"health", "speed", "shield", "multishot"}
ENEMY_KINDS == {"normal", "fast", "tank"}

WEAPON_TYPES ==
    [laser   |-> [damage |-> 1, speed |-> 150, cooldown |-> 2,  spread |-> 5],
     plasma  |-> [damage |-> 2, speed |-> 100, cooldown |-> 4,  spread |-> 10],
     missile |-> [damage |-> 3, speed |-> 80,  cooldown |-> 8,  spread |-> 2],
     railgun |-> [damage |-> 4, speed |-> 200, cooldown |-> 10, spread |-> 0]]

SpawnPoint == <<0, 0, 20 * PosScale>>

-----------------------------------------------------------------------------
(* Arithmetic helpers *)

Min(a, b) == IF a <= b THEN a ELSE b

\* x - d on floats, where x may be float('inf')
Minus(x, d) == IF x = inf THEN inf ELSE x - d

\* v * 0.9 on the lattice (truncation toward zero)
Damp(v) == IF v >= 0 THEN (v * 9) \div 10 ELSE -(((-v) * 9) \div 10)

\* the elements of sequence s whose index is not in gone, in order
RECURSIVE Keep(_, _, _)
Keep(s, gone, i) ==
    IF i > Len(s) THEN <<>>
    ELSE IF i \in gone THEN Keep(s, gone, i + 1)
    ELSE <<s[i]>> \o Keep(s, gone, i + 1)

\* run-length append of n particles of one lifetime
AddParticles(ps, n, life) ==
    IF n = 0 THEN ps
    ELSE IF Len(ps) > 0 /\ ps[Len(ps)].lifetime = life
    THEN [ps EXCEPT ![Len(ps)].n = @ + n]
    ELSE Append(ps, [n |-> n, lifetime |-> life])

\* number of particles in a collection
RECURSIVE CountParticles(_)
CountParticles(ps) ==
    IF ps = <<>> THEN 0 ELSE Head(ps).n + CountParticles(Tail(ps))

\* Particle.update on every particle, then removal of the expired ones
RECURSIVE StepParticles(_, _)
StepParticles(ps, dt) ==
    IF ps = <<>> THEN <<>>
    ELSE LET l == Head(ps).lifetime - dt
             rest == StepParticles(Tail(ps), dt)
         IN IF l <= 0 THEN rest
            ELSE IF rest # <<>> /\ Head(rest).lifetime = l
            THEN <<[n |-> Head(ps).n + Head(rest).n, lifetime |-> l]>> \o Tail(rest)
            ELSE <<[n |-> Head(ps).n, lifetime |-> l]>> \o rest

-----------------------------------------------------------------------------
(* Construction *)

PlayerInit ==
    [position |-> SpawnPoint,
     velocity |-> <<0, 0, 0>>,
     lives |-> 3,
     score |-> 0,
     bombs |-> <<>>,
     last_shot_time |-> 0,
     is_dead |-> FALSE,
     respawn_time |-> 0,
     invincible_time |-> 20,
     cheat_mode |-> FALSE,
     auto_fire |-> FALSE,
     last_auto_fire_time |-> 0,
     auto_fire_delay |-> 3,
     aim_mode |-> 0,
     powerups |-> [speed |-> 0, shield |-> 0, multishot |-> 0],
     shield_active |-> FALSE,
     combo |-> 0,
     last_kill_time |-> 0,
     particles |-> <<>>,
     current_weapon |-> "laser",
     projectiles |-> <<>>,
     super_power_ready |-> TRUE,
     super_power_cooldown |-> 0,
     super_power_active |-> FALSE,
     super_power_timer |-> 0]

\* Enemy.__init__, lines 202-217; since is history: the dt fed to
\* Enemy.update since the last projectile hit, saturating at MaxSince
EnemyInit(kind) ==
    [type |-> kind,
     radius |-> IF kind = "tank" THEN 15 ELSE 10,
     health |-> CASE kind = "fast" -> 1 [] kind = "tank" -> 4 [] OTHER -> 2,
     hit_cooldown |-> 0,
     since |-> MaxSince]

BossInit(kind) ==
    [EnemyInit(kind) EXCEPT !.radius = 30, !.health = 10, !.hit_cooldown = 0]

\* mutant: the speed of the weapon kind, without the global multiplier
Projectile_raw_speed(start_pos, slot, weapon_type) ==
    [start_pos |-> start_pos,
     slot |-> slot,
     weapon_type |-> weapon_type,
     speed |-> WEAPON_TYPES[weapon_type].speed,
     lifetime |-> 10,
     active |-> TRUE]

\* Projectile.__init__, lines 139-156; slot is the index of the projectile
\* in the fan of its shot
Projectile(start_pos, slot, weapon_type) ==
    [start_pos |-> start_pos,
     slot |-> slot,
     weapon_type |-> weapon_type,
     speed |-> (WEAPON_TYPES[weapon_type].speed * LASER_SPEED) \div 100,
     lifetime |-> 10,
     active |-> TRUE]

\* Bomb.__init__, lines 253-262 (position and direction are not tracked)
Bomb ==
    [lifetime |-> 20, active |-> TRUE, exploded |-> FALSE, explosion_time |-> 5]

\* what one call of SolarSystem.update did (history, not program state);
\* every entry is read off the states before and after the step it describes
NoLog ==
    [ran |-> FALSE,           \* the call got past the game_over return
     td |-> <<>>,             \* take_damage calls: [pre, post] player fields
     contacts |-> <<>>,       \* contacts within distance, in the order tested
     hitsE |-> <<>>,          \* per projectile of the pass: enemies damaged
     hitsB |-> <<>>,          \* per projectile of the pass: hits on the boss
     ehits |-> <<>>,          \* projectile-enemy hits, in order
     bhits |-> <<>>,          \* projectile-boss hits, in order
     kills |-> 0,             \* enemies removed by projectile hits
     bkills |-> 0,            \* enemies removed by bombs
     boss_spawned |-> FALSE,
     boss_spawn_health |-> 0,
     boss_present |-> FALSE,  \* boss slot occupied after the spawn step
     bonus |-> 0,             \* number of boss bonuses (1000) awarded
     sp_gap |-> 0,            \* at an activation: dt fed since the one before
     sp_step |-> FALSE,       \* the super-power step ran
     sp_found |-> 0,          \* enemies in the collection at that step
     sp_removed |-> 0,        \* enemies it removed
     activated |-> FALSE,     \* a super-power activation happened
     burst |-> 0,             \* particles the activation block appended
     keys |-> {},             \* keys held down during the call
     dt |-> 0,                \* time_delta of the call
     spawned |-> 0,           \* enemies the spawn step added
     cheat |-> "none",        \* the cheat toggle: "on", "off" or "none"
     cheat_post |-> <<>>,     \* CheatView right after a toggle
     fired |-> 0,             \* projectiles created
     shots |-> <<>>,          \* the projectiles created, as constructed
     shoot |-> [ran |-> FALSE], \* what the firing block saw (see ShootView)
     pass |-> [enemies0 |-> 0, enemies |-> <<>>,     \* elements at the start
               powerups0 |-> 0, powerups |-> <<>>,   \* of a pass and the
               shots0 |-> 0, shots |-> <<>>,         \* snapshot places visited
               live |-> <<>>],   \* active flags at the start of the collision pass
     flight |-> [pre |-> <<>>, post |-> <<>>], \* Player.update's projectile pass
     pdust |-> [pre |-> <<>>, post |-> <<>>],  \* the player's particle pass
     dust |-> [pre |-> <<>>, post |-> <<>>],   \* the world's particle pass
     score0 |-> 0]            \* score when the call began

-----------------------------------------------------------------------------
(* Player.take_damage *)

\* mutant: the invincibility window is not tested
take_damage_no_grace(p) ==
    IF ~p.cheat_mode
    THEN LET lives == p.lives - 1
         IN IF lives <= 0
            THEN [p EXCEPT !.lives = lives, !.is_dead = TRUE]
            ELSE [p EXCEPT !.lives = lives,
                           !.respawn_time = p.invincible_time,
                           !.position = SpawnPoint]
    ELSE p

\* mutant: a non-fatal hit leaves the player where it is
take_damage_no_teleport(p) ==
    IF p.respawn_time <= 0 /\ ~p.cheat_mode
    THEN LET lives == p.lives - 1
         IN IF lives <= 0
            THEN [p EXCEPT !.lives = lives, !.is_dead = TRUE]
            ELSE [p EXCEPT !.lives = lives,
                           !.respawn_time = p.invincible_time]
    ELSE p

take_damage(p) ==
    IF p.respawn_time <= 0 /\ ~p.cheat_mode
    THEN LET lives == p.lives - 1
         IN IF lives <= 0
            THEN [p EXCEPT !.lives = lives, !.is_dead = TRUE]
            ELSE [p EXCEPT !.lives = lives,
                           !.respawn_time = p.invincible_time,
                           !.position = SpawnPoint]
    ELSE p

-----------------------------------------------------------------------------
(* Player.get_aim_direction.  in.mouse is the cursor offset from the screen *)
(* centre and in.toward the offset of the closest hostile, both reduced to  *)
(* their signs; hostile says that the enemies argument is not empty.        *)

get_aim_direction(p, in, hostile) ==
    IF p.aim_mode = 0
    THEN <<in.mouse[1], in.mouse[2], 0>>
    ELSE IF p.aim_mode = 1
    THEN LET dx == (IF "RIGHT" \in in.keys THEN 1 ELSE 0)
                   - (IF "LEFT" \in in.keys THEN 1 ELSE 0)
             dy == (IF "DOWN" \in in.keys THEN 1 ELSE 0)
                   - (IF "UP" \in in.keys THEN 1 ELSE 0)
         IN <<dx, dy, 0>>
    ELSE IF p.aim_mode = 2 /\ hostile
    THEN in.toward
    ELSE <<0, 0, 0>>

-----------------------------------------------------------------------------
(* Player.update, one operator per block of the method, in its order *)

\* lines 448-458: super-power cooldown and duration timers
SuperPowerCooldown(p, dt) ==
    IF ~p.super_power_ready
    THEN LET c == p.super_power_cooldown - dt
         IN [p EXCEPT !.super_power_cooldown = c,
                      !.super_power_ready = (c <= 0)]
    ELSE p

\* mutant: the burst ends only once the timer is below zero
SuperPowerExpire_late(p, dt) ==
    IF p.super_power_active
    THEN LET t == p.super_power_timer - dt
         IN [p EXCEPT !.super_power_timer = t,
                      !.super_power_active = ~(t < 0)]
    ELSE p

SuperPowerExpire(p, dt) ==
    IF p.super_power_active
    THEN LET t == p.super_power_timer - dt
         IN [p EXCEPT !.super_power_timer = t,
                      !.super_power_active = ~(t <= 0)]
    ELSE p

\* mutant: the key alone starts a burst
SuperPowerFires_unreadied(p, keys) == "f" \in keys

\* line 461: the activation test
SuperPowerFires(p, keys) == "f" \in keys /\ p.super_power_ready

\* lines 460-480: activation with the F key
SuperPowerActivate(p, keys) ==
    IF SuperPowerFires(p, keys)
    THEN [p EXCEPT !.super_power_ready = FALSE,
                   !.super_power_cooldown = SUPER_POWER_COOLDOWN,
                   !.super_power_active = TRUE,
                   !.super_power_timer = SUPER_POWER_DURATION,
                   !.particles = AddParticles(@, 100, 10)]
    ELSE p

\* mutant: switching cheat mode off leaves the lives where they are
CheatToggle_keeps_lives(p, keys) ==
    IF "F1" \in keys /\ ~p.cheat_mode
    THEN [p EXCEPT !.cheat_mode = TRUE,
                   !.lives = 999,
                   !.auto_fire = TRUE,
                   !.shield_active = TRUE,
                   !.powerups = [speed |-> inf, shield |-> inf, multishot |-> inf]]
    ELSE IF "F1" \in keys /\ p.cheat_mode
    THEN [p EXCEPT !.cheat_mode = FALSE,
                   !.auto_fire = FALSE,
                   !.shield_active = FALSE,
                   !.powerups = [speed |-> 0, shield |-> 0, multishot |-> 0]]
    ELSE p

\* lines 482-498: cheat mode with F1
CheatToggle(p, keys) ==
    IF "F1" \in keys /\ ~p.cheat_mode
    THEN [p EXCEPT !.cheat_mode = TRUE,
                   !.lives = 999,
                   !.auto_fire = TRUE,
                   !.shield_active = TRUE,
                   !.powerups = [speed |-> inf, shield |-> inf, multishot |-> inf]]
    ELSE IF "F1" \in keys /\ p.cheat_mode
    THEN [p EXCEPT !.cheat_mode = FALSE,
                   !.lives = 3,
                   !.auto_fire = FALSE,
                   !.shield_active = FALSE,
                   !.powerups = [speed |-> 0, shield |-> 0, multishot |-> 0]]
    ELSE p

\* lines 500-502: aim mode with F2
AimToggle(p, keys) ==
    IF "F2" \in keys THEN [p EXCEPT !.aim_mode = (@ + 1) % 3] ELSE p

\* lines 504-536: buoyancy, integration, movement keys
Physics(p, keys) ==
    LET z == p.position[3]
        vz0 == p.velocity[3] - GRAVITY
        vz1 == IF z < 5 * PosScale THEN vz0 + FLOAT_FORCE ELSE vz0
        vz2 == IF z > 30 * PosScale THEN vz1 - FLOAT_FORCE ELSE vz1
        vx == p.velocity[1]
        vy == p.velocity[2]
        pos == <<p.position[1] + vx, p.position[2] + vy, z + vz2>>
        nvx == IF "a" \in keys THEN -PLAYER_SPEED
               ELSE IF "d" \in keys THEN PLAYER_SPEED
               ELSE Damp(vx)
        nvy == IF "w" \in keys THEN PLAYER_SPEED
               ELSE IF "s" \in keys THEN -PLAYER_SPEED
               ELSE Damp(vy)
        nvz == IF "SPACE" \in keys THEN PLAYER_SPEED
               ELSE IF "LSHIFT" \in keys THEN -PLAYER_SPEED
               ELSE vz2
    IN [p EXCEPT !.position = pos, !.velocity = <<nvx, nvy, nvz>>]

\* lines 538-546: weapon keys
WeaponSelect(p, keys) ==
    IF "1" \in keys THEN [p EXCEPT !.current_weapon = "laser"]
    ELSE IF "2" \in keys THEN [p EXCEPT !.current_weapon = "plasma"]
    ELSE IF "3" \in keys THEN [p EXCEPT !.current_weapon = "missile"]
    ELSE IF "4" \in keys THEN [p EXCEPT !.current_weapon = "railgun"]
    ELSE p

\* mutant: the invincibility timer stands still
Invincibility_frozen(p, dt) == p

\* lines 550-552: invincibility timer
Invincibility(p, dt) ==
    IF p.respawn_time > 0 THEN [p EXCEPT !.respawn_time = @ - dt] ELSE p

\* mutant: a zero aim vector still consumes the shot
Shooting_blank_shot(p, in, hostile, now) ==
    LET should_shoot ==
            in.mouse_button
            \/ (p.auto_fire /\ now - p.last_auto_fire_time > p.auto_fire_delay)
        weapon_stats == WEAPON_TYPES[p.current_weapon]
        dir == get_aim_direction(p, in, hostile)
        num_projectiles == IF p.current_weapon # "railgun" THEN 3 ELSE 1
    IN IF should_shoot /\ now - p.last_shot_time > weapon_stats.cooldown
       THEN [p EXCEPT
                !.projectiles =
                    IF dir # <<0, 0, 0>>
                    THEN @ \o [i \in 1..num_projectiles |->
                                  Projectile(p.position, i - 1, p.current_weapon)]
                    ELSE @,
                !.last_shot_time = now,
                !.last_auto_fire_time = IF p.auto_fire THEN now ELSE @]
       ELSE p

\* mutant: the weapon cooldown is not looked at
Shooting_no_cooldown(p, in, hostile, now) ==
    LET should_shoot ==
            in.mouse_button
            \/ (p.auto_fire /\ now - p.last_auto_fire_time > p.auto_fire_delay)
        dir == get_aim_direction(p, in, hostile)
        num_projectiles == IF p.current_weapon # "railgun" THEN 3 ELSE 1
    IN IF should_shoot /\ dir # <<0, 0, 0>>
       THEN [p EXCEPT
                !.projectiles = @ \o [i \in 1..num_projectiles |->
                                        Projectile(p.position, i - 1, p.current_weapon)],
                !.last_shot_time = now,
                !.last_auto_fire_time = IF p.auto_fire THEN now ELSE @]
       ELSE p

\* lines 554-594: firing; now is current_time
Shooting(p, in, hostile, now) ==
    LET should_shoot ==
            in.mouse_button
            \/ (p.auto_fire /\ now - p.last_auto_fire_time > p.auto_fire_delay)
        weapon_stats == WEAPON_TYPES[p.current_weapon]
        dir == get_aim_direction(p, in, hostile)
        num_projectiles == IF p.current_weapon # "railgun" THEN 3 ELSE 1
    IN IF should_shoot
          /\ now - p.last_shot_time > weapon_stats.cooldown
          /\ dir # <<0, 0, 0>>
       THEN [p EXCEPT
                !.projectiles = @ \o [i \in 1..num_projectiles |->
                                        Projectile(p.position, i - 1, p.current_weapon)],
                !.last_shot_time = now,
                !.last_auto_fire_time = IF p.auto_fire THEN now ELSE @]
       ELSE p

\* mutant: active follows the lifetime, also for a projectile that has hit
ProjectileUpdate_revives(pr, dt) ==
    LET l == pr.lifetime - dt
    IN [pr EXCEPT !.lifetime = l, !.active = (l > 0)]

\* Bomb.update, lines 271-282 (position is not tracked)
BombUpdate(b, dt) ==
    IF ~b.exploded
    THEN LET l == b.lifetime - dt
         IN [b EXCEPT !.lifetime = l, !.exploded = IF l <= 0 THEN TRUE ELSE @]
    ELSE LET e == b.explosion_time - dt
         IN [b EXCEPT !.explosion_time = e, !.active = IF e <= 0 THEN FALSE ELSE @]

\* Projectile.update (position is not tracked)
ProjectileUpdate(pr, dt) ==
    LET l == pr.lifetime - dt
    IN [pr EXCEPT !.lifetime = l, !.active = IF l <= 0 THEN FALSE ELSE @]

\* mutant: only the projectiles whose lifetime ran out are pruned
RECURSIVE UpdateProjectileList_by_age(_, _)
UpdateProjectileList_by_age(ps, dt) ==
    IF ps = <<>> THEN <<>>
    ELSE LET pr == ProjectileUpdate(Head(ps), dt)
             rest == UpdateProjectileList_by_age(Tail(ps), dt)
         IN IF pr.lifetime <= 0 THEN rest ELSE <<pr>> \o rest

\* lines 596-600: advance and prune projectiles
RECURSIVE UpdateProjectileList(_, _)
UpdateProjectileList(ps, dt) ==
    IF ps = <<>> THEN <<>>
    ELSE LET pr == ProjectileUpdate(Head(ps), dt)
             rest == UpdateProjectileList(Tail(ps), dt)
         IN IF ~pr.active THEN rest ELSE <<pr>> \o rest

UpdateProjectiles(p, dt) ==
    [p EXCEPT !.projectiles = UpdateProjectileList(@, dt)]

\* mutant: the shield stays up when its timer runs out
UpdatePowerups_shield_stays(p, dt) ==
    LET step(v) == IF v > 0 THEN Minus(v, dt) ELSE v
    IN [p EXCEPT !.powerups = [speed |-> step(p.powerups.speed),
                               shield |-> step(p.powerups.shield),
                               multishot |-> step(p.powerups.multishot)]]

\* lines 602-607: power-up timers
UpdatePowerups(p, dt) ==
    LET step(v) == IF v > 0 THEN Minus(v, dt) ELSE v
        sh == step(p.powerups.shield)
    IN [p EXCEPT !.powerups = [speed |-> step(p.powerups.speed),
                               shield |-> sh,
                               multishot |-> step(p.powerups.multishot)],
                 !.shield_active =
                     IF p.powerups.shield > 0 /\ sh <= 0 THEN FALSE ELSE @]

\* lines 609-611: combo
UpdateCombo(p, now) ==
    IF now - p.last_kill_time > COMBO_TIMEOUT THEN [p EXCEPT !.combo = 0] ELSE p

\* lines 613-617: the player's particles
UpdateParticles(p, dt) ==
    [p EXCEPT !.particles = StepParticles(@, dt)]

\* the method up to the firing block (lines 448-552)
PlayerUpdateReady(p, in) ==
    Invincibility(
      WeaponSelect(
        Physics(
          AimToggle(
            CheatToggle(
              SuperPowerActivate(
                SuperPowerExpire(SuperPowerCooldown(p, in.dt), in.dt),
                in.keys),
              in.keys),
            in.keys),
          in.keys),
        in.keys),
      in.dt)

\* the method up to and including the firing block
PlayerUpdateHead(p, in, hostile, now) ==
    Shooting(PlayerUpdateReady(p, in), in, hostile, now)

\* the method after the firing block (lines 596-617)
PlayerUpdateTail(q, in, now) ==
    UpdateParticles(
      UpdateCombo(
        UpdatePowerups(UpdateProjectiles(q, in.dt), in.dt),
        now),
      in.dt)

PlayerUpdate(p, in, hostile, now) ==
    IF p.is_dead THEN p
    ELSE PlayerUpdateTail(PlayerUpdateHead(p, in, hostile, now), in, now)

-----------------------------------------------------------------------------
(* SolarSystem: the world as one record while a call runs.  The field gone  *)
(* holds, during a pass over a snapshot self.enemies[:], the snapshot       *)
(* indices already removed from self.enemies; it is empty between passes.   *)

boss_spawn_score == 200

World ==
    [player |-> player, enemies |-> enemies, boss |-> boss,
     next_boss_score |-> next_boss_score, game_over |-> game_over,
     powerups |-> powerups, particles |-> particles,
     wave |-> wave, wave_timer |-> wave_timer,
     ENEMY_SPAWN_RATE |-> ENEMY_SPAWN_RATE, MAX_ENEMIES |-> MAX_ENEMIES,
     sp_acc |-> sp_acc, cheat_pre |-> cheat_pre, gone |-> {}, log |-> NoLog]

\* the fields of the player that the cheat toggle grants and takes back
CheatView(p) ==
    [lives |-> p.lives, shield_active |-> p.shield_active,
     powerups |-> p.powerups]

\* the fields of the player that take_damage may touch
DamageView(p) ==
    [lives |-> p.lives, is_dead |-> p.is_dead, respawn_time |-> p.respawn_time,
     position |-> p.position, cheat_mode |-> p.cheat_mode]

\* a call self.player.take_damage(), recorded in the log
Damage(w) ==
    LET q == take_damage(w.player)
    IN [w EXCEPT !.player = q,
                 !.log.td = Append(@, [pre |-> DamageView(w.player),
                                       post |-> DamageView(q)])]

\* SolarSystem.create_explosion: 20 particles of lifetime 0.5
create_explosion(w) ==
    [w EXCEPT !.particles = AddParticles(@, 20, 5)]

\* ends a pass over a snapshot: self.enemies without the removed elements
Compact(w) ==
    [w EXCEPT !.enemies = Keep(w.enemies, w.gone, 1), !.gone = {}]

\* mutant: the difficulty goes up without a ceiling
WaveStep_no_ceiling(w, dt) ==
    LET t == w.wave_timer - dt
    IN IF t <= 0
       THEN [w EXCEPT !.wave = @ + 1,
                      !.wave_timer = WAVE_DURATION,
                      !.ENEMY_SPAWN_RATE = @ + 5,
                      !.MAX_ENEMIES = @ + 2]
       ELSE [w EXCEPT !.wave_timer = t]

\* mutant: the wave ends only once the timer is below zero
WaveStep_strict(w, dt) ==
    LET t == w.wave_timer - dt
    IN IF t < 0
       THEN [w EXCEPT !.wave = @ + 1,
                      !.wave_timer = WAVE_DURATION,
                      !.ENEMY_SPAWN_RATE = Min(50, @ + 5),
                      !.MAX_ENEMIES = Min(20, @ + 2)]
       ELSE [w EXCEPT !.wave_timer = t]

\* lines 827-835: wave system
WaveStep(w, dt) ==
    LET t == w.wave_timer - dt
    IN IF t <= 0
       THEN [w EXCEPT !.wave = @ + 1,
                      !.wave_timer = WAVE_DURATION,
                      !.ENEMY_SPAWN_RATE = Min(50, @ + 5),
                      !.MAX_ENEMIES = Min(20, @ + 2)]
       ELSE [w EXCEPT !.wave_timer = t]

\* lines 845-855: the effect of picking up the power-up of snapshot index i
Pickup(w, i) ==
    LET kind == w.powerups[i]
        w1 == CASE kind = "health" ->
                     [w EXCEPT !.player.lives = Min(10, @ + 1)]
                [] kind = "speed" ->
                     [w EXCEPT !.player.powerups.speed = POWERUP_DURATION]
                [] kind = "shield" ->
                     [w EXCEPT !.player.powerups.shield = POWERUP_DURATION,
                               !.player.shield_active = TRUE]
                [] OTHER ->
                     [w EXCEPT !.player.powerups.multishot = POWERUP_DURATION]
    IN create_explosion(w1)

\* lines 837-855: pass over self.powerups[:]
RECURSIVE PickupLoop(_, _, _)
PickupLoop(w, i, in) ==
    IF i > Len(w.powerups) THEN w
    ELSE LET w1 == [w EXCEPT !.log.pass.powerups = Append(@, i)]
         IN PickupLoop(IF i \in in.pickup THEN Pickup(w1, i) ELSE w1, i + 1, in)

PickupStep(w, in) ==
    LET w0 == [w EXCEPT !.log.pass.powerups0 = Len(w.powerups)]
        w1 == PickupLoop(w0, 1, in)
    IN [w1 EXCEPT !.powerups = Keep(@, in.pickup, 1)]

\* lines 857-861: the world's particles
WorldParticles(w, dt) ==
    [w EXCEPT !.particles = StepParticles(@, dt),
              !.log.dust = [pre |-> w.particles,
                            post |-> StepParticles(w.particles, dt)]]

\* what the firing block reads: q is the player when the block is entered
ShootView(q, in, hostile, now) ==
    [ran |-> TRUE,
     trigger |-> in.mouse_button,
     auto_fire |-> q.auto_fire,
     now |-> now,
     last_shot_time |-> q.last_shot_time,
     last_auto_fire_time |-> q.last_auto_fire_time,
     weapon |-> q.current_weapon,
     position |-> q.position,
     aim |-> get_aim_direction(q, in, hostile)]

\* line 871: self.player.update(...), with the history it produces
PlayerStep(w, in, now) ==
    LET p == w.player
        hostile == w.enemies # <<>> \/ w.boss # None
        timed == SuperPowerExpire(SuperPowerCooldown(p, in.dt), in.dt)
        act == ~p.is_dead /\ SuperPowerFires(timed, in.keys)
        before == IF p.is_dead THEN 0
                  ELSE Len(p.projectiles)
        head == IF p.is_dead THEN p ELSE PlayerUpdateHead(p, in, hostile, now)
        done == PlayerUpdate(p, in, hostile, now)
        armed == SuperPowerActivate(timed, in.keys)
        toggled == CheatToggle(armed, in.keys)
        flip == IF p.is_dead \/ toggled.cheat_mode = armed.cheat_mode THEN "none"
                ELSE IF toggled.cheat_mode THEN "on" ELSE "off"
    IN [w EXCEPT !.player = done,
                 !.log.cheat = flip,
                 !.log.cheat_post = IF flip = "none" THEN <<>> ELSE CheatView(toggled),
                 !.cheat_pre = IF flip = "on" THEN CheatView(armed) ELSE @,
                 !.log.activated = act,
                 !.log.sp_gap = IF act THEN w.sp_acc + in.dt ELSE 0,
                 !.log.burst =
                     IF p.is_dead THEN 0
                     ELSE CountParticles(SuperPowerActivate(timed, in.keys).particles)
                          - CountParticles(timed.particles),
                 !.log.flight =
                     IF p.is_dead THEN @
                     ELSE [pre |-> head.projectiles,
                           post |-> done.projectiles],
                 !.log.pdust =
                     IF p.is_dead THEN @
                     ELSE [pre |-> head.particles,
                           post |-> done.particles],
                 !.log.fired = Len(head.projectiles) - before,
                 !.log.shots = SubSeq(head.projectiles, before + 1,
                                      Len(head.projectiles)),
                 !.log.shoot = IF p.is_dead THEN [ran |-> FALSE]
                               ELSE ShootView(PlayerUpdateReady(p, in), in,
                                              hostile, now),
                 !.sp_acc = IF p.is_dead THEN @
                            ELSE IF act THEN 0
                            ELSE Min(SUPER_POWER_COOLDOWN, @ + in.dt)]

\* Player.reset, lines 389-399
reset(p) ==
    [p EXCEPT !.position = SpawnPoint, !.velocity = <<0, 0, 0>>,
              !.lives = 3, !.score = 0, !.bombs = <<>>,
              !.is_dead = FALSE, !.respawn_time = 0,
              !.cheat_mode = FALSE, !.auto_fire = FALSE]

\* SolarSystem.restart_game, lines 1011-1017
restart_game(w) ==
    [w EXCEPT !.player = reset(@), !.enemies = <<>>, !.boss = None,
              !.next_boss_score = boss_spawn_score, !.game_over = FALSE]

\* mutant: the spawn draw alone decides
SpawnEnemy_no_cap(w, in) ==
    IF in.r_spawn < w.ENEMY_SPAWN_RATE
    THEN [w EXCEPT !.enemies = Append(@, EnemyInit(in.kind))]
    ELSE w

\* lines 878-885: enemy spawn
SpawnEnemy(w, in) ==
    IF Len(w.enemies) < w.MAX_ENEMIES /\ in.r_spawn < w.ENEMY_SPAWN_RATE
    THEN [w EXCEPT !.enemies = Append(@, EnemyInit(in.kind))]
    ELSE w

\* history of the enemy-spawn step (w before, w1 after)
LogSpawnEnemy(w, w1) ==
    [w1 EXCEPT !.log.spawned = Len(w1.enemies) - Len(w.enemies)]

EnemySpawnStep(w, in) == LogSpawnEnemy(w, SpawnEnemy(w, in))

\* line 888: the boss-spawn test
BossDue(w) == w.player.score >= w.next_boss_score /\ w.boss = None

\* mutant: the boss keeps the health of its enemy kind
SpawnBoss_kind_health(w, in) ==
    IF BossDue(w)
    THEN [w EXCEPT !.boss = [BossInit(in.boss_kind) EXCEPT
                                !.health = EnemyInit(in.boss_kind).health],
                   !.next_boss_score = @ + boss_spawn_score]
    ELSE w

\* lines 887-896: boss spawn
SpawnBoss(w, in) ==
    IF BossDue(w)
    THEN [w EXCEPT !.boss = BossInit(in.boss_kind),
                   !.next_boss_score = @ + boss_spawn_score]
    ELSE w

\* history of the boss-spawn step (w before, w1 after)
LogSpawnBoss(w, w1) ==
    [w1 EXCEPT !.log.boss_spawned = (w.boss = None /\ w1.boss # None),
               !.log.boss_spawn_health =
                   IF w.boss = None /\ w1.boss # None THEN w1.boss.health ELSE 0,
               !.log.boss_present = (w1.boss # None)]

\* Enemy.update, lines 219-222 (the pursuit of the player is not tracked)
EnemyUpdate(e, dt) ==
    IF e.hit_cooldown > 0 THEN [e EXCEPT !.hit_cooldown = @ - dt] ELSE e

\* Enemy.update on a hostile, with the history field since brought forward
Aged(e, dt) ==
    [EnemyUpdate(e, dt) EXCEPT !.since = Min(MaxSince, @ + dt)]

\* mutant: a fatal enemy contact does not end the game
EnemyContact_plays_on(w, i) ==
    LET w1 == IF ~w.player.cheat_mode THEN Damage(w) ELSE w
    IN [w1 EXCEPT !.gone = @ \cup {i}]

\* lines 908-912: enemy i touches the player
EnemyContact(w, i) ==
    LET w1 == IF ~w.player.cheat_mode THEN Damage(w) ELSE w
    IN [w1 EXCEPT !.gone = @ \cup {i},
                  !.game_over = IF w1.player.is_dead THEN TRUE ELSE @]

\* history of a hostile within contact distance (w before, w1 after):
\* who it was, the player before and after, whether it left its collection
LogContact(w, w1, who, i) ==
    [w1 EXCEPT !.log.contacts =
                  Append(@, [who |-> who,
                             pre |-> DamageView(w.player),
                             post |-> DamageView(w1.player),
                             removed |-> IF who = "enemy" THEN i \in w1.gone
                                         ELSE w1.boss = None])]

\* mutant: the contact test does not look at the invincibility timer
EnemyTouch_ungated(w, i, in) ==
    IF ~w.player.is_dead /\ i \in in.contact
    THEN EnemyContact(w, i)
    ELSE w

\* lines 902-912: the contact test of enemy i
EnemyTouch(w, i, in) ==
    IF ~w.player.is_dead /\ w.player.respawn_time <= 0 /\ i \in in.contact
    THEN EnemyContact(w, i)
    ELSE w

\* mutant: the pass walks the live list, so the element after a removed one
\* moves into its place and is passed over
RECURSIVE EnemyLoop_live(_, _, _)
EnemyLoop_live(w, i, in) ==
    IF i > Len(w.enemies) THEN w
    ELSE LET w1 == [w EXCEPT !.enemies[i] = Aged(@, in.dt),
                             !.log.pass.enemies = Append(@, i)]
             w2 == IF i \in in.contact
                   THEN LogContact(w1, EnemyTouch(w1, i, in), "enemy", i)
                   ELSE w1
         IN EnemyLoop_live(w2, IF i \in w2.gone THEN i + 2 ELSE i + 1, in)

\* lines 898-912: pass over self.enemies[:]
RECURSIVE EnemyLoop(_, _, _)
EnemyLoop(w, i, in) ==
    IF i > Len(w.enemies) THEN w
    ELSE LET w1 == [w EXCEPT !.enemies[i] = Aged(@, in.dt),
                             !.log.pass.enemies = Append(@, i)]
             w2 == IF i \in in.contact
                   THEN LogContact(w1, EnemyTouch(w1, i, in), "enemy", i)
                   ELSE w1
         IN EnemyLoop(w2, i + 1, in)

EnemyStep(w, in) ==
    Compact(EnemyLoop([w EXCEPT !.log.pass.enemies0 = Len(w.enemies)], 1, in))

\* lines 922-926: the boss touches the player
BossContact(w) ==
    LET w2 == IF ~w.player.cheat_mode THEN Damage(w) ELSE w
    IN [w2 EXCEPT !.game_over = IF w2.player.is_dead THEN TRUE ELSE @]

\* lines 914-926: boss update and contact
BossStep(w, in) ==
    IF w.boss # None
    THEN LET w1 == [w EXCEPT !.boss = Aged(@, in.dt)]
         IN IF in.boss_contact
            THEN LogContact(w1, BossContact(w1), "boss", 0)
            ELSE w1
    ELSE w

-----------------------------------------------------------------------------
(* Projectile, bomb and super-power damage *)

BossSpawnStep(w, in) == LogSpawnBoss(w, SpawnBoss(w, in))

\* history of a step that may award the boss bonus (w before, w1 after)
LogBonus(w, w1) ==
    [w1 EXCEPT !.log.bonus =
                  @ + IF w1.player.score - w.player.score >= 1000 THEN 1 ELSE 0]

\* lines 932-940 and 950-958: the capsule tests, outcomes given by the input
HitsEnemy(in, j, k) == j \in in.lineP /\ k \in in.lineE
HitsBoss(in, j) == j \in in.lineP /\ in.lineB

\* mutant: every hit is paid, not only the fatal one
HitEnemy_pays_all(w, j, k) ==
    LET h == w.enemies[k].health
             - WEAPON_TYPES[w.player.projectiles[j].weapon_type].damage
    IN [w EXCEPT !.enemies[k].health = h,
                 !.enemies[k].hit_cooldown = 2,
                 !.player.score = @ + SCORE_PER_HIT,
                 !.gone = IF h <= 0 THEN @ \cup {k} ELSE @,
                 !.player.projectiles[j].active = FALSE]

\* mutant: an enemy brought to health <= 0 is paid for but stays
HitEnemy_leaves_it(w, j, k) ==
    LET h == w.enemies[k].health
             - WEAPON_TYPES[w.player.projectiles[j].weapon_type].damage
    IN [w EXCEPT !.enemies[k].health = h,
                 !.enemies[k].hit_cooldown = 2,
                 !.player.score = IF h <= 0 THEN @ + SCORE_PER_HIT ELSE @,
                 !.player.projectiles[j].active = FALSE]

\* lines 941-946: projectile j damages enemy k
HitEnemy(w, j, k) ==
    LET h == w.enemies[k].health
             - WEAPON_TYPES[w.player.projectiles[j].weapon_type].damage
    IN [w EXCEPT !.enemies[k].health = h,
                 !.enemies[k].hit_cooldown = 2,
                 !.player.score = IF h <= 0 THEN @ + SCORE_PER_HIT ELSE @,
                 !.gone = IF h <= 0 THEN @ \cup {k} ELSE @,
                 !.player.projectiles[j].active = FALSE]

\* history of a projectile-enemy hit (w before, w1 after)
LogEnemyHit(w, w1, j, k) ==
    [w1 EXCEPT !.log.ehits =
                  Append(@, [type |-> w.enemies[k].type,
                             k |-> k,
                             cooldown |-> w.enemies[k].hit_cooldown,
                             cooldown_after |-> w1.enemies[k].hit_cooldown,
                             since |-> w.enemies[k].since,
                             before |-> w.enemies[k].health,
                             health |-> w1.enemies[k].health,
                             award |-> w1.player.score - w.player.score,
                             removed |-> k \in w1.gone]),
               !.enemies[k].since = 0,
               !.log.kills = @ + Cardinality(w1.gone) - Cardinality(w.gone),
               !.log.hitsE[j] = @ + 1]

\* mutant: the inner loop goes on after a hit
RECURSIVE EnemyScan_no_break(_, _, _, _)
EnemyScan_no_break(w, j, k, in) ==
    IF k > Len(w.enemies) THEN w
    ELSE IF k \notin w.gone /\ w.enemies[k].hit_cooldown <= 0 /\ HitsEnemy(in, j, k)
    THEN EnemyScan_no_break(LogEnemyHit(w, HitEnemy(w, j, k), j, k), j, k + 1, in)
    ELSE EnemyScan_no_break(w, j, k + 1, in)

\* mutant: the hit cooldown of the enemy is not consulted
RECURSIVE EnemyScan_no_cooldown(_, _, _, _)
EnemyScan_no_cooldown(w, j, k, in) ==
    IF k > Len(w.enemies) THEN w
    ELSE IF k \notin w.gone /\ HitsEnemy(in, j, k)
    THEN LogEnemyHit(w, HitEnemy(w, j, k), j, k)
    ELSE EnemyScan_no_cooldown(w, j, k + 1, in)

\* lines 930-947: the inner loop over self.enemies[:], from snapshot index k;
\* it stops at the first hit (break)
RECURSIVE EnemyScan(_, _, _, _)
EnemyScan(w, j, k, in) ==
    IF k > Len(w.enemies) THEN w
    ELSE IF k \notin w.gone /\ w.enemies[k].hit_cooldown <= 0 /\ HitsEnemy(in, j, k)
    THEN LogEnemyHit(w, HitEnemy(w, j, k), j, k)
    ELSE EnemyScan(w, j, k + 1, in)

\* mutant: a boss brought to health <= 0 is paid for but stays in its slot
HitBoss_keeps_slot(w, j) ==
    LET h == w.boss.health
             - WEAPON_TYPES[w.player.projectiles[j].weapon_type].damage
    IN [w EXCEPT !.boss = [@ EXCEPT !.health = h, !.hit_cooldown = 2],
                 !.player.score = IF h <= 0 THEN @ + 1000 ELSE @,
                 !.player.projectiles[j].active = FALSE]

\* lines 959-964: projectile j damages the boss
HitBoss(w, j) ==
    LET h == w.boss.health
             - WEAPON_TYPES[w.player.projectiles[j].weapon_type].damage
    IN [w EXCEPT !.boss = IF h <= 0 THEN None
                           ELSE [@ EXCEPT !.health = h, !.hit_cooldown = 2],
                 !.player.score = IF h <= 0 THEN @ + 1000 ELSE @,
                 !.player.projectiles[j].active = FALSE]

\* history of a projectile-boss hit (w before, w1 after)
LogBossHit(w, w1, j) ==
    [LogBonus(w, w1) EXCEPT
        !.log.hitsB[j] = @ + 1,
        !.log.bhits = Append(@, [cooldown |-> w.boss.hit_cooldown,
                                 cooldown_after |->
                                     IF w1.boss = None THEN 2
                                     ELSE w1.boss.hit_cooldown,
                                 since |-> w.boss.since,
                                 before |-> w.boss.health]),
        !.boss = IF @ = None THEN @ ELSE [@ EXCEPT !.since = 0]]

\* lines 948-964: projectile j against the boss
BossScan(w, j, in) ==
    IF w.boss # None /\ w.boss.hit_cooldown <= 0 /\ HitsBoss(in, j)
    THEN LogBossHit(w, HitBoss(w, j), j)
    ELSE w

\* lines 928-964: pass over self.player.projectiles[:]
RECURSIVE ProjectileLoop(_, _, _)
ProjectileLoop(w, j, in) ==
    IF j > Len(w.player.projectiles) THEN w
    ELSE LET w1 == [w EXCEPT !.log.pass.shots = Append(@, j)]
         IN ProjectileLoop(BossScan(EnemyScan(w1, j, 1, in), j, in), j + 1, in)

ProjectileStep(w, in) ==
    LET zero == [j \in 1..Len(w.player.projectiles) |-> 0]
        w0 == [w EXCEPT !.log.hitsE = zero, !.log.hitsB = zero,
                        !.log.pass.shots0 = Len(w.player.projectiles),
                        !.log.pass.live =
                            [j \in 1..Len(w.player.projectiles) |->
                                w.player.projectiles[j].active]]
    IN Compact(ProjectileLoop(w0, 1, in))

\* lines 969-978: one detonated bomb against self.enemies[:], from index k
RECURSIVE BombEnemies(_, _, _)
BombEnemies(w, k, in) ==
    IF k > Len(w.enemies) THEN w
    ELSE IF k \notin w.gone /\ k \in in.bombE
    THEN LET h == w.enemies[k].health - 2
         IN BombEnemies(
              [w EXCEPT !.enemies[k].health = h,
                        !.player.score = IF h <= 0 THEN @ + SCORE_PER_HIT ELSE @,
                        !.gone = IF h <= 0 THEN @ \cup {k} ELSE @],
              k + 1, in)
    ELSE BombEnemies(w, k + 1, in)

\* lines 980-989: one detonated bomb against the boss
BombBoss(w, in) ==
    IF w.boss # None /\ in.bombB
    THEN LET h == w.boss.health - 4
         IN [w EXCEPT !.boss = IF h <= 0 THEN None ELSE [@ EXCEPT !.health = h],
                      !.player.score = IF h <= 0 THEN @ + 1000 ELSE @]
    ELSE w

\* one detonated bomb, with its history
BombBlast(w, in) ==
    LET w1 == BombEnemies(w, 1, in)
        w2 == [w1 EXCEPT !.log.bkills =
                            @ + Cardinality(w1.gone) - Cardinality(w.gone)]
    IN LogBonus(w2, BombBoss(w2, in))

\* lines 966-989: pass over self.player.bombs[:]
RECURSIVE BombLoop(_, _, _)
BombLoop(w, b, in) ==
    IF b > Len(w.player.bombs) THEN w
    ELSE BombLoop(IF w.player.bombs[b].exploded THEN BombBlast(w, in) ELSE w,
                  b + 1, in)

BombStep(w, in) == Compact(BombLoop(w, 1, in))

\* lines 991-993 and spawn_powerup, lines 803-810
SpawnPowerup(w, in) ==
    IF Len(w.enemies) < w.MAX_ENEMIES /\ in.r_pow < w.ENEMY_SPAWN_RATE
       /\ in.r_pu < 100
    THEN [w EXCEPT !.powerups = Append(@, in.pu_type)]
    ELSE w

\* mutant: removal while iterating the live list skips every other enemy
RECURSIVE SuperPowerEnemies_skip(_, _)
SuperPowerEnemies_skip(w, k) ==
    IF k > Len(w.enemies) THEN w
    ELSE SuperPowerEnemies_skip(
           create_explosion(
             [w EXCEPT !.player.score = @ + SCORE_PER_HIT,
                       !.gone = @ \cup {k}]),
           k + 2)

\* lines 998-1001: the super power removes every enemy, from index k
RECURSIVE SuperPowerEnemies(_, _)
SuperPowerEnemies(w, k) ==
    IF k > Len(w.enemies) THEN w
    ELSE SuperPowerEnemies(
           create_explosion(
             [w EXCEPT !.player.score = @ + SCORE_PER_HIT,
                       !.gone = @ \cup {k}]),
           k + 1)

\* lines 1004-1009: the super power damages the boss
SuperPowerBoss(w) ==
    IF w.boss # None
    THEN LET h == w.boss.health - 5
             w1 == create_explosion(w)
         IN [w1 EXCEPT !.boss = IF h <= 0 THEN None ELSE [@ EXCEPT !.health = h],
                       !.player.score = IF h <= 0 THEN @ + 1000 ELSE @]
    ELSE w

\* lines 995-1009: super-power effect, with its history
SuperPowerStep(w) ==
    IF w.player.super_power_active
    THEN LET w1 == SuperPowerEnemies(w, 1)
             w2 == Compact([w1 EXCEPT !.log.sp_step = TRUE,
                                      !.log.sp_found = Len(w.enemies),
                                      !.log.sp_removed = Cardinality(w1.gone)])
         IN LogBonus(w2, SuperPowerBoss(w2))
    ELSE w

-----------------------------------------------------------------------------
(* SolarSystem.update *)

\* lines 878-1009: the call after the restart check
Play(w, in) ==
    SuperPowerStep(
      SpawnPowerup(
        BombStep(
          ProjectileStep(
            BossStep(
              EnemyStep(BossSpawnStep(EnemySpawnStep(w, in), in), in),
              in),
            in),
          in),
        in))

\* lines 873-876: the restart check
RestartCheck(w, in) ==
    IF "r" \in in.keys /\ w.game_over THEN restart_game(w) ELSE Play(w, in)

\* mutant: the call goes on after the game is over
update_no_return(w, in, now) ==
    LET w0 == [w EXCEPT !.log.ran = TRUE, !.log.score0 = w.player.score]
    IN RestartCheck(
         PlayerStep(
           WorldParticles(PickupStep(WaveStep(w0, in.dt), in), in.dt),
           in, now),
         in)

\* lines 823-1009; now is the reading of the wall clock in this call
update(w, in, now) ==
    IF w.game_over THEN w
    ELSE LET w0 == [w EXCEPT !.log.ran = TRUE, !.log.score0 = w.player.score]
         IN RestartCheck(
              PlayerStep(
                WorldParticles(PickupStep(WaveStep(w0, in.dt), in), in.dt),
                in, now),
              in)

\* one frame of the main loop (lines 1234-1247): a call of update; the wall
\* clock has advanced by in.elapsed since the previous frame
Update(in) ==
    \E n \in {update(World, in, clock + in.elapsed)} :
       /\ player' = n.player
       /\ enemies' = n.enemies
       /\ boss' = n.boss
       /\ next_boss_score' = n.next_boss_score
       /\ game_over' = n.game_over
       /\ powerups' = n.powerups
       /\ particles' = n.particles
       /\ wave' = n.wave
       /\ wave_timer' = n.wave_timer
       /\ ENEMY_SPAWN_RATE' = n.ENEMY_SPAWN_RATE
       /\ MAX_ENEMIES' = n.MAX_ENEMIES
       /\ sp_acc' = n.sp_acc
       /\ cheat_pre' = n.cheat_pre
       /\ log' = [n.log EXCEPT !.keys = in.keys, !.dt = in.dt]
       /\ clock' = clock + in.elapsed
       /\ frames' = frames + 1

\* a direct call of Player.take_damage
TakeDamage ==
    /\ player' = take_damage(player)
    /\ log' = [NoLog EXCEPT !.td = <<[pre |-> DamageView(player),
                                      post |-> DamageView(take_damage(player))]>>]
    /\ UNCHANGED <<enemies, boss, next_boss_score, game_over, powerups,
                   particles, wave, wave_timer, ENEMY_SPAWN_RATE, MAX_ENEMIES,
                   clock, frames, sp_acc, cheat_pre>>

\* SolarSystem.__init__ and the module globals
Init ==
    /\ player = PlayerInit
    /\ enemies = <<>>
    /\ boss = None
    /\ next_boss_score = boss_spawn_score
    /\ game_over = FALSE
    /\ powerups = <<>>
    /\ particles = <<>>
    /\ wave = 1
    /\ wave_timer = WAVE_DURATION
    /\ ENEMY_SPAWN_RATE = INIT_SPAWN_RATE
    /\ MAX_ENEMIES = INIT_MAX_ENEMIES
    /\ clock = 0
    /\ frames = 0
    /\ sp_acc = SUPER_POWER_COOLDOWN
    /\ cheat_pre = CheatView(PlayerInit)
    /\ log = NoLog

-----------------------------------------------------------------------------
(* Inputs of a frame and the specifications *)

\* a frame in which nothing is pressed, no random draw succeeds and no
\* distance test passes
Idle ==
    [dt |-> 1, elapsed |-> 1, keys |-> {},
     mouse_button |-> FALSE, mouse |-> <<0, 0>>, toward |-> <<1, 0, 0>>,
     r_spawn |-> 999, kind |-> "normal", boss_kind |-> "normal",
     r_pow |-> 999, r_pu |-> 999, pu_type |-> "health",
     pickup |-> {}, contact |-> {}, boss_contact |-> FALSE,
     lineP |-> {}, lineE |-> {}, lineB |-> FALSE,
     bombE |-> {}, bombB |-> FALSE]

\* the explored runs stay inside the bounds of the model
BoundedBut(live, horizon) ==
    /\ frames <= horizon
    /\ Len(enemies) <= live
    /\ Len(player.projectiles) <= MaxShots
    /\ Len(powerups) <= MaxPickups
    /\ player.score <= MaxScore
    /\ wave <= MaxWave
    /\ \A c \in 1..3 : player.position[c] - SpawnPoint[c] \in -MaxStep..MaxStep


\* the player states a direct call of take_damage is tried on
DamageStates ==
    {[PlayerInit EXCEPT !.lives = l, !.is_dead = (l <= 0), !.respawn_time = r,
                        !.cheat_mode = c, !.position = pos] :
        l \in 0..10 \cup {999}, r \in {-3, 0, 1, 20}, c \in BOOLEAN,
        pos \in {SpawnPoint, <<PLAYER_SPEED, 0, 20 * PosScale>>}}

InitDamage ==
    /\ player \in {p \in DamageStates :
                      /\ p.cheat_mode => p.lives \in {10, 999}
                      /\ ~p.cheat_mode => p.lives <= 10
                      /\ p.is_dead => p.respawn_time <= 0}
    /\ enemies = <<>>
    /\ boss = None
    /\ next_boss_score = boss_spawn_score
    /\ game_over = FALSE
    /\ powerups = <<>>
    /\ particles = <<>>
    /\ wave = 1
    /\ wave_timer = WAVE_DURATION
    /\ ENEMY_SPAWN_RATE = INIT_SPAWN_RATE
    /\ MAX_ENEMIES = INIT_MAX_ENEMIES
    /\ clock = 0
    /\ frames = 0
    /\ sp_acc = SUPER_POWER_COOLDOWN
    /\ cheat_pre = CheatView(PlayerInit)
    /\ log = NoLog

NextDamage == TakeDamage /\ player'.lives >= -MaxDebt

SpecDamage == InitDamage /\ [][NextDamage]_vars

\* frames that exercise the super power: the F key, several frame lengths,
\* enemies spawning
InputsSuper ==
    {[Idle EXCEPT !.dt = d, !.keys = k, !.r_spawn = r] :
        d \in {5, 20}, k \in {{}, {"f"}}, r \in {0, 999}}

NextSuper ==
    /\ frames < MaxFramesSuper
    /\ \E in \in InputsSuper : Update(in) /\ BoundedBut(MaxHorde, MaxFramesSuper)'

SpecSuper == Init /\ [][NextSuper]_vars

\* frames around the recharge of the super power: the F key held or not,
\* frames of 0.5 s, 2 s and 5 s, so that the cooldown of 10 s runs out
\* within a few frames
InputsRecharge ==
    {[Idle EXCEPT !.dt = d, !.keys = k] :
        d \in {5, 20, 50}, k \in {{}, {"f"}}}

NextRecharge ==
    /\ frames < MaxFramesRecharge
    /\ \E in \in InputsRecharge :
          Update(in) /\ BoundedBut(0, MaxFramesRecharge)'

SpecRecharge == Init /\ [][NextRecharge]_vars

\* frames of shooting: the trigger held with the pointer off-centre, the
\* wall clock far enough on for every weapon, enemies spawning and standing
\* in the line of fire, the boss, the super power, the railgun key
InputsShoot ==
    UNION {
      {[Idle EXCEPT !.dt = 5, !.elapsed = 11, !.keys = k,
                    !.mouse_button = TRUE, !.mouse = <<1, 0>>,
                    !.r_spawn = IF sp = "none" THEN 999 ELSE 0,
                    !.kind = IF sp = "none" THEN "normal" ELSE sp,
                    !.boss_kind = "tank",
                    !.lineP = 1..(2 * MaxShots), !.lineE = le, !.lineB = lb] :
          k \in {{}, {"4"}} \cup (IF player.super_power_ready THEN {{"f"}} ELSE {}),
          le \in {{}} \cup (IF enemies # <<>> \/ sp # "none" THEN {{1}} ELSE {})
                    \cup (IF Len(enemies) + (IF sp = "none" THEN 0 ELSE 1) >= 2
                          THEN {{1, 2}} ELSE {}),
          lb \in IF boss # None \/ BossDue(World) THEN BOOLEAN ELSE {FALSE}} :
      sp \in {"none", "normal", "fast"}}

NextShoot ==
    /\ frames < MaxFramesShoot
    /\ \E in \in InputsShoot : Update(in) /\ BoundedBut(MaxLive, MaxFramesShoot)'

SpecShoot == Init /\ [][NextShoot]_vars

\* frames shorter than the hit cooldown: a tenth of a second each, missiles
\* or lasers fired three at a time, once the earlier ones are spent, at up
\* to two enemies and at the boss that follows the second kill
InputsCooldown ==
    {[Idle EXCEPT !.dt = 1, !.elapsed = 11, !.keys = k,
                  !.mouse_button = mb, !.mouse = <<1, 0>>,
                  !.r_spawn = IF sp = "none" THEN 999 ELSE 0,
                  !.kind = IF sp = "none" THEN "normal" ELSE sp,
                  !.boss_kind = "normal",
                  !.lineP = 1..(2 * MaxShots), !.lineE = le, !.lineB = lb] :
        k \in {{}} \cup (IF frames = 0 THEN {{"3"}} ELSE {}),
        mb \in IF \E j \in 1..Len(player.projectiles) :
                      player.projectiles[j].active
               THEN {FALSE} ELSE BOOLEAN,
        sp \in IF Len(enemies) < 2 THEN {"none", "fast", "tank"} ELSE {"none"},
        le \in {{}, {1}} \cup (IF Len(enemies) >= 2 THEN {{1, 2}} ELSE {}),
        lb \in IF boss # None \/ BossDue(World) THEN BOOLEAN ELSE {FALSE}}

NextCooldown ==
    /\ frames < MaxFramesCooldown
    /\ \E in \in InputsCooldown :
          Update(in) /\ BoundedBut(MaxLive, MaxFramesCooldown)'

SpecCooldown == Init /\ [][NextCooldown]_vars

\* frames in which elements leave the collections while they are walked:
\* enemies touching the player, power-ups picked up, projectiles hitting or
\* running out (1.0 s of life, frames of 0.3 s), particles of the explosions
InputsPass ==
    {[Idle EXCEPT !.dt = 3, !.elapsed = 11,
                  !.mouse_button = mb, !.mouse = <<1, 0>>,
                  !.r_spawn = IF sp THEN 0 ELSE 999,
                  !.contact = c,
                  !.r_pow = IF pu THEN 0 ELSE 999,
                  !.r_pu = IF pu THEN 0 ELSE 999,
                  !.pu_type = "speed",
                  !.pickup = g,
                  !.lineP = 1..(2 * MaxShots), !.lineE = le] :
        mb \in IF player.projectiles = <<>> THEN BOOLEAN ELSE {FALSE},
        sp \in IF Len(enemies) < 2 THEN BOOLEAN ELSE {FALSE},
        c \in {{}} \cup (IF Len(enemies) >= 2 THEN {{1}, {1, 2}} ELSE {}),
        pu \in IF Len(powerups) < 2 THEN BOOLEAN ELSE {FALSE},
        g \in {{}} \cup (IF powerups # <<>> THEN {{1}} ELSE {}),
        le \in {{}} \cup (IF enemies # <<>> THEN {{1}} ELSE {})}

NextPass ==
    /\ frames < MaxFramesPass
    /\ \E in \in InputsPass :
          /\ Update(in)
          /\ frames' <= MaxFramesPass
          /\ Len(enemies') <= 2
          /\ Len(powerups') <= 2
          /\ Len(player.projectiles') <= MaxShots

SpecPass == Init /\ [][NextPass]_vars

\* frames at the keyboard: any of the weapon keys together, the cheat key
\* and the aim-mode key, held or released from one frame to the next
InputsKeys ==
    {[Idle EXCEPT !.dt = 10, !.keys = k] :
        k \in SUBSET {"1", "2", "3", "4"}
              \cup {{"F1"}, {"F2"}, {"F1", "F2"}}}

NextKeys ==
    /\ frames < MaxFramesKeys
    /\ \E in \in InputsKeys : Update(in) /\ BoundedBut(0, MaxFramesKeys)'

SpecKeys == Init /\ [][NextKeys]_vars

\* frames of invincibility: short and long frames (0.3 s, 2 s), an enemy
\* that may touch the player in any of them, cheat mode switched in the
\* first two.  The main loop (lines 1234-1247) calls update on every turn,
\* so a run does not end while the player is invincible, and the frames go
\* on under weak fairness, up to a horizon that leaves room for a full
\* invincibility after the last frame.  Every step of NextGrace is a step of
\* Advance, and NextGrace can take a step in every reachable state in which
\* Advance can (the input without a spawn stays inside the bounds), so
\* fairness of Advance is fairness of the frames.
InputsGrace ==
    {[Idle EXCEPT !.dt = d, !.keys = k,
                  !.r_spawn = IF sp THEN 0 ELSE 999,
                  !.contact = c] :
        d \in {3, 20},
        k \in {{}} \cup (IF frames <= 1 THEN {{"F1"}} ELSE {}),
        sp \in IF enemies = <<>> THEN BOOLEAN ELSE {FALSE},
        c \in {{}} \cup (IF enemies # <<>> THEN {{1}} ELSE {})}

Invincible == player.respawn_time > 0 /\ ~player.is_dead

GraceHorizon == MaxFramesGrace + 2 * PlayerInit.invincible_time

MayAdvance ==
    frames < MaxFramesGrace \/ (Invincible /\ frames < GraceHorizon)

NextGrace ==
    /\ MayAdvance
    /\ \E in \in InputsGrace : Update(in) /\ BoundedBut(1, GraceHorizon)'

Advance ==
    /\ MayAdvance
    /\ frames' = frames + 1

SpecGrace == Init /\ [][NextGrace]_vars /\ WF_frames(Advance)

\* frames of contact: enemies spawning and touching the player, one or two
\* at a time, the boss touching the player, the super power as the source of
\* score, cheat mode switched on or off in the first two frames
InputsLife ==
    {[Idle EXCEPT !.dt = 20, !.keys = k,
                  !.r_spawn = IF sp = "none" THEN 999 ELSE 0,
                  !.boss_kind = bk,
                  !.contact = c, !.boss_contact = bc] :
        k \in {{}} \cup (IF player.super_power_ready THEN {{"f"}} ELSE {})
                  \cup (IF game_over THEN {{"r"}} ELSE {})
                  \cup (IF frames <= 1 THEN {{"F1"}} ELSE {}),
        sp \in {"none", "normal"},
        bk \in IF BossDue(World) THEN {"normal", "tank"} ELSE {"normal"},
        c \in {{}, {1}} \cup (IF Len(enemies) >= 2 THEN {{1, 2}} ELSE {}),
        bc \in IF boss # None \/ BossDue(World) THEN BOOLEAN ELSE {FALSE}}

NextLife ==
    /\ frames < MaxFramesLife
    /\ \E in \in InputsLife : Update(in) /\ BoundedBut(MaxLive, MaxFramesLife)'

SpecLife == Init /\ [][NextLife]_vars

\* frames around the cheat toggle: F1 down or up, one enemy that may touch
\* the player, one power-up of any kind that may be spawned and picked up
InputsCheat ==
    {[Idle EXCEPT !.dt = 30, !.keys = k,
                  !.r_spawn = IF sp THEN 0 ELSE 999,
                  !.contact = c,
                  !.r_pow = IF pu = "none" THEN 999 ELSE 0,
                  !.r_pu = IF pu = "none" THEN 999 ELSE 0,
                  !.pu_type = IF pu = "none" THEN "health" ELSE pu,
                  !.pickup = g] :
        k \in {{}, {"F1"}},
        sp \in IF enemies = <<>> THEN BOOLEAN ELSE {FALSE},
        c \in IF enemies = <<>> THEN {{}} ELSE {{}, {1}},
        pu \in IF powerups = <<>> THEN {"none"} \cup POWERUP_TYPES ELSE {"none"},
        g \in IF powerups = <<>> THEN {{}} ELSE {{}, {1}}}

NextCheat ==
    /\ frames < MaxFramesCheat
    /\ \E in \in InputsCheat : Update(in) /\ BoundedBut(1, MaxFramesCheat)'

SpecCheat == Init /\ [][NextCheat]_vars

\* frames of the wave system: short and long frames (0.1 s, 15 s, 30 s), the
\* spawn draw succeeding or failing
InputsWave ==
    {[Idle EXCEPT !.dt = d, !.r_spawn = r] :
        d \in {1, 150, 300}, r \in {0, 999}}

NextWave ==
    /\ frames < MaxFramesWave
    /\ \E in \in InputsWave :
          /\ Update(in)
          /\ wave' <= MaxWaveLong
          /\ Len(enemies') <= MaxCrowd

SpecWave == Init /\ [][NextWave]_vars

\* calls of Projectile.update and Bomb.update on one projectile and one
\* bomb, with frames of 0.1 s, 0.3 s and 0.5 s; the projectile may be
\* switched off by a hit (line 946) at any time
EntityDts == {1, 3, 5}

InitEntity ==
    /\ player \in {[PlayerInit EXCEPT
                         !.projectiles = <<Projectile(SpawnPoint, 0, wt)>>,
                         !.bombs = <<Bomb>>] : wt \in DOMAIN WEAPON_TYPES}
    /\ enemies = <<>>
    /\ boss = None
    /\ next_boss_score = boss_spawn_score
    /\ game_over = FALSE
    /\ powerups = <<>>
    /\ particles = <<>>
    /\ wave = 1
    /\ wave_timer = WAVE_DURATION
    /\ ENEMY_SPAWN_RATE = INIT_SPAWN_RATE
    /\ MAX_ENEMIES = INIT_MAX_ENEMIES
    /\ clock = 0
    /\ frames = 0
    /\ sp_acc = SUPER_POWER_COOLDOWN
    /\ cheat_pre = CheatView(PlayerInit)
    /\ log = NoLog

EntityFrame ==
    UNCHANGED <<enemies, boss, next_boss_score, game_over, powerups, particles,
                wave, wave_timer, ENEMY_SPAWN_RATE, MAX_ENEMIES, clock, frames,
                sp_acc, cheat_pre, log>>

ProjectileAdvance ==
    /\ player.projectiles[1].lifetime > -MaxOverrun
    /\ \E dt \in EntityDts :
          player' = [player EXCEPT !.projectiles[1] = ProjectileUpdate(@, dt)]
    /\ EntityFrame

ProjectileHit ==
    /\ player.projectiles[1].active
    /\ player' = [player EXCEPT !.projectiles[1].active = FALSE]
    /\ EntityFrame

BombAdvance ==
    /\ player.bombs[1].explosion_time > -MaxOverrun
    /\ \E dt \in EntityDts :
          player' = [player EXCEPT !.bombs[1] = BombUpdate(@, dt)]
    /\ EntityFrame

NextEntity == ProjectileAdvance \/ ProjectileHit \/ BombAdvance

SpecEntity == InitEntity /\ [][NextEntity]_vars

\* frames of firing: the trigger up or down, the pointer centred or not,
\* weapon keys, the cheat key (auto-fire), the aim-mode key, arrow keys in
\* keyboard aiming, a hostile present or not in auto-target mode, a move key;
\* the wall clock advances by 0.1 s, 0.3 s or 1.1 s; a frame of 1 s, so
\* that no projectile outlives the update that created it
InputsFire ==
    {[Idle EXCEPT !.dt = 10, !.elapsed = e, !.keys = k,
                  !.mouse_button = m, !.mouse = c,
                  !.r_spawn = IF sp THEN 0 ELSE 999] :
        e \in {1, 3, 11},
        k \in {{}, {"F1"}, {"F2"}, {"2"}, {"4"}, {"d"}}
              \cup (IF player.aim_mode = 1
                    THEN {{"RIGHT"}, {"LEFT", "RIGHT"}} ELSE {}),
        m \in BOOLEAN,
        c \in IF player.aim_mode = 0 THEN {<<0, 0>>, <<1, 0>>} ELSE {<<0, 0>>},
        sp \in IF player.aim_mode = 2 /\ enemies = <<>> THEN BOOLEAN ELSE {FALSE}}

NextFire ==
    /\ frames < MaxFramesFire
    /\ \E in \in InputsFire : Update(in) /\ BoundedBut(1, MaxFramesFire)'

SpecFire == Init /\ [][NextFire]_vars

\* frames of firing against the wall clock: the trigger held or auto-fire
\* (cheat mode), frames that took 0.1 s or 0.3 s of wall-clock time
InputsClock ==
    {[Idle EXCEPT !.dt = 5, !.elapsed = e, !.keys = k,
                  !.mouse_button = m, !.mouse = <<1, 0>>] :
        e \in {1, 3}, m \in BOOLEAN, k \in {{}, {"F1"}}}

NextClock ==
    /\ frames < MaxFramesClock
    /\ \E in \in InputsClock : Update(in) /\ BoundedBut(MaxLive, MaxFramesClock)'

SpecClock == Init /\ [][NextClock]_vars

-----------------------------------------------------------------------------
(* Properties *)

\* the player is protected: inside the invincibility window or in cheat mode
Protected(v) == v.respawn_time > 0 \/ v.cheat_mode

\* C1: a call of take_damage made while the invincibility timer is > 0 or
\* cheat mode is on changes nothing: lives, is_dead, respawn_time and the
\* position are after the call what they were before it, call after call.
C1_NoOpWhileProtected ==
    \A i \in DOMAIN log.td :
        Protected(log.td[i].pre) => log.td[i].post = log.td[i].pre

\* a call was made inside the invincibility window (cheat mode off)
C1_Witness ==
    /\ log.td # <<>>
    /\ log.td[1].pre.respawn_time > 0
    /\ ~log.td[1].pre.cheat_mode
    /\ ~log.td[1].pre.is_dead

\* C2: a call of take_damage made outside the invincibility window and
\* outside cheat mode takes exactly one life; if no life is left (lives <= 0)
\* the player is dead and position and invincibility timer are untouched;
\* otherwise the timer is invincible_time (2.0 s) and the position is the
\* spawn point [0, 0, 20].
C2_DamageEffect ==
    \A i \in DOMAIN log.td :
        LET a == log.td[i].pre
            b == log.td[i].post
        IN ~Protected(a) =>
              /\ b.lives = a.lives - 1
              /\ b.cheat_mode = a.cheat_mode
              /\ IF b.lives <= 0
                 THEN /\ b.is_dead
                      /\ b.position = a.position
                      /\ b.respawn_time = a.respawn_time
                 ELSE /\ b.is_dead = a.is_dead
                      /\ b.respawn_time = 20
                      /\ b.position = <<0, 0, 20 * PosScale>>

\* a non-fatal hit taken away from the spawn point
C2_Witness ==
    /\ log.td # <<>>
    /\ ~Protected(log.td[1].pre)
    /\ log.td[1].pre.position # SpawnPoint
    /\ log.td[1].post.lives >= 1

\* the score of the last call: every enemy removed by damage or by the
\* super power is worth SCORE_PER_HIT, every boss bonus 1000
ScoreAccounted ==
    player.score = log.score0
                   + SCORE_PER_HIT * (log.kills + log.bkills + log.sp_removed)
                   + 1000 * log.bonus

\* the game state: everything but the wall clock and the history
GameState(w) ==
    <<w.player, w.enemies, w.boss, w.next_boss_score, w.game_over, w.powerups,
      w.particles, w.wave, w.wave_timer, w.ENEMY_SPAWN_RATE, w.MAX_ENEMIES>>

C4_NoWallClock ==
    \A a \in InputsClock, b \in InputsClock :
        [a EXCEPT !.elapsed = 0] = [b EXCEPT !.elapsed = 0] =>
            GameState(update(World, a, clock + a.elapsed))
              = GameState(update(World, b, clock + b.elapsed))

\* C5 (as claimed): in one pass a projectile damages at most one target,
\* enemies and boss taken together.
C5_OneTargetPerPass ==
    \A j \in DOMAIN log.hitsE : log.hitsE[j] + log.hitsB[j] <= 1

\* C5 (amended): in one pass a projectile damages at most one enemy (the scan
\* of the enemies stops at the first hit) and the boss at most once; the boss
\* test is made whether or not an enemy was hit, so up to two targets.
C5_OneEnemyOneBoss ==
    \A j \in DOMAIN log.hitsE :
        /\ log.hitsE[j] <= 1
        /\ log.hitsB[j] <= 1

\* a projectile has damaged an enemy and the boss in the same pass, with a
\* second enemy on its path left alone
C5_Witness ==
    /\ log.ran
    /\ \E j \in DOMAIN log.hitsE : log.hitsE[j] = 1 /\ log.hitsB[j] = 1
    /\ Len(log.ehits) = 1
    /\ log.kills = 0
    /\ Len(enemies) >= 2

\* C6: a projectile hit that leaves an enemy with health > 0 pays nothing and
\* keeps the enemy in the collection; the hit that brings its health to <= 0
\* removes it in the same update and pays SCORE_PER_HIT, once: the score of
\* the update counts each removed enemy once, and no enemy with health <= 0
\* is in the collection when update returns.
C6_KillPaysOnce ==
    /\ \A i \in DOMAIN log.ehits :
          LET h == log.ehits[i]
          IN IF h.health > 0
             THEN h.award = 0 /\ ~h.removed
             ELSE h.award = SCORE_PER_HIT /\ h.removed
    /\ log.kills = Cardinality({i \in DOMAIN log.ehits : log.ehits[i].removed})
    /\ log.ran => ScoreAccounted
    /\ \A k \in DOMAIN enemies : enemies[k].health >= 1

\* an enemy of initial health 2 falls to the second laser hit (damage 1):
\* the first hit, in an earlier update, paid nothing
C6_Witness ==
    /\ log.ran /\ ~log.sp_step
    /\ \E i \in DOMAIN log.ehits :
          /\ log.ehits[i].type = "normal"
          /\ log.ehits[i].before = 1
          /\ log.ehits[i].health = 0
          /\ log.ehits[i].removed
    /\ log.kills = 1 /\ log.bonus = 0
    /\ player.score = log.score0 + SCORE_PER_HIT

\* C7 (as claimed): a call of update spawns a boss exactly when, at the
\* call, player.score >= next_boss_score and the boss slot is empty; the boss
\* has health 10 and next_boss_score rises by 200.
C7_SpawnExactlyWhenDue ==
    [][/\ log'.boss_spawned <=> BossDue(World)
       /\ log'.boss_spawned =>
             log'.boss_spawn_health = 10
             /\ next_boss_score' = next_boss_score + boss_spawn_score]_vars

\* C7 (amended): a call of update made while the game is not over spawns a
\* boss exactly when, at the spawn step, player.score >= next_boss_score and
\* the boss slot is empty (a call on a finished game spawns none); the boss
\* has health 10 whatever its kind, each spawn raises next_boss_score by
\* exactly 200, nothing else changes it, and no boss is spawned while one is
\* in the slot.
C7_SpawnWhenDueAndPlaying ==
    [][/\ log'.boss_spawned <=> (~game_over /\ BossDue(World))
       /\ log'.boss_spawned =>
             /\ log'.boss_spawn_health = 10
             /\ boss = None
       /\ next_boss_score' = next_boss_score
              + (IF log'.boss_spawned THEN boss_spawn_score ELSE 0)]_vars

\* a boss of kind tank has been spawned, with health 10
C7_Witness ==
    /\ log.ran /\ log.boss_spawned
    /\ log.boss_spawn_health = 10
    /\ boss # None /\ boss.type = "tank"
    /\ next_boss_score = 2 * boss_spawn_score

\* C8: the boss bonus (1000) is paid at most once per update and exactly in
\* the update in which the boss's health reaches <= 0, whatever damaged it
\* (projectile, bomb, super power); that update empties the slot, so a boss
\* in the slot always has health >= 1 and is never paid for twice.
C8_BossBonusOnce ==
    log.ran =>
        /\ log.bonus <= 1
        /\ log.bonus = 1 <=> (log.boss_present /\ boss = None)
        /\ boss # None => boss.health >= 1
        /\ ScoreAccounted

\* the boss died in an update in which a projectile hit it and the super
\* power was active as well
C8_Witness ==
    /\ log.ran /\ log.bonus = 1 /\ boss = None
    /\ log.sp_step
    /\ \E j \in DOMAIN log.hitsB : log.hitsB[j] = 1

\* C9: in every update that ends with the super power active, the
\* super-power step removes every enemy that is in the collection at that
\* step (those spawned during the active window included), the score rises by
\* SCORE_PER_HIT for each of them, and the collection is empty when the
\* update returns.
C9_SuperPowerClears ==
    (log.ran /\ player.super_power_active) =>
        /\ log.sp_step
        /\ log.sp_removed = log.sp_found
        /\ enemies = <<>>
        /\ ScoreAccounted

\* five live enemies and no boss: the update of the activation removes all
\* five and the score is up by 500
C9_Witness ==
    /\ log.ran /\ log.activated /\ player.super_power_active
    /\ log.sp_found = 5
    /\ ~log.boss_present
    /\ player.score = log.score0 + 500

\* C10: after an activation the super power is active in every state until
\* the dt fed to Player.update since that activation reaches
\* SUPER_POWER_DURATION (2.0 s), and inactive from the first update on in
\* which that sum is >= 2.0 s.
C10_ActiveForDuration ==
    player.super_power_active <=> sp_acc < SUPER_POWER_DURATION

\* the burst has just ended: the update that brought the sum to exactly 2.0 s
C10_Witness ==
    /\ log.ran /\ ~log.activated
    /\ ~player.super_power_active
    /\ ~player.super_power_ready
    /\ sp_acc = SUPER_POWER_DURATION

\* C11 (as claimed): a burst starts only in a frame in which the activation
\* key is down, was not down in the previous frame, and the super power is
\* ready; starting it leaves ready false, the cooldown at
\* SUPER_POWER_COOLDOWN, active true, the duration timer at
\* SUPER_POWER_DURATION and appends exactly 100 particles.
C11_EdgeTriggeredBurst ==
    [][log'.activated =>
          /\ "f" \in log'.keys
          /\ "f" \notin log.keys
          /\ ~player'.super_power_ready
          /\ player'.super_power_cooldown = SUPER_POWER_COOLDOWN
          /\ player'.super_power_active
          /\ player'.super_power_timer = SUPER_POWER_DURATION
          /\ log'.burst = 100]_vars

\* C12 (as claimed): toggling cheat mode on and then off restores lives,
\* shield_active and the three power-up durations to the values they had
\* before the first toggle.
C12_ToggleInvolution ==
    log.cheat = "off" => log.cheat_post = cheat_pre

\* the values the toggle leaves when it switches cheat mode off
CheatDefaults ==
    [lives |-> 3, shield_active |-> FALSE,
     powerups |-> [speed |-> 0, shield |-> 0, multishot |-> 0]]

\* C12 (amended): toggling cheat mode on and then off leaves lives = 3,
\* shield_active = false and the three power-up durations = 0, whatever they
\* were before the first toggle; the pre-toggle values come back only when
\* they were these defaults.
C12_ToggleOffDefaults ==
    /\ log.cheat = "off" => log.cheat_post = CheatDefaults
    /\ log.cheat = "on" =>
          log.cheat_post = [lives |-> 999, shield_active |-> TRUE,
                            powerups |-> [speed |-> inf, shield |-> inf,
                                          multishot |-> inf]]

\* cheat mode was switched on with 2 lives and a running shield power-up,
\* and has just been switched off
C12_Witness ==
    /\ log.cheat = "off"
    /\ cheat_pre.lives = 2
    /\ cheat_pre.shield_active
    /\ cheat_pre.powerups.shield > 0

\* C13 (as claimed): while cheat mode is on the grants persist: lives = 999,
\* shield_active and infinite speed, shield and multishot durations, whatever
\* updates, contacts and pickups occur.
C13_GrantsPersist ==
    player.cheat_mode =>
        /\ player.lives = 999
        /\ player.shield_active
        /\ player.powerups = [speed |-> inf, shield |-> inf, multishot |-> inf]

C15_WaveOnExpiry ==
    [][/\ log'.ran =>
             IF wave_timer - log'.dt <= 0
             THEN wave' = wave + 1 /\ wave_timer' = WAVE_DURATION
             ELSE wave' = wave /\ wave_timer' = wave_timer - log'.dt
       /\ ~log'.ran => wave' = wave /\ wave_timer' = wave_timer
       /\ log'.dt < WAVE_DURATION =>
             0 < wave_timer' /\ wave_timer' <= WAVE_DURATION]_vars

\* a wave has just ended in a frame of 15 s that brought the timer to
\* exactly 0
C15_Witness ==
    /\ log.ran /\ log.dt = 150
    /\ wave = 2 /\ wave_timer = WAVE_DURATION
    /\ frames = 2

\* C16: an update adds at most one enemy, and only when the number of
\* enemies is below MAX_ENEMIES at the spawn step; so the number of enemies
\* is <= MAX_ENEMIES, and <= 20, in every state.
C16_SpawnBelowCap ==
    [][/\ log'.spawned \in {0, 1}
       /\ Len(enemies') <= Len(enemies) + 1
       /\ log'.spawned = 1 => Len(enemies) < MAX_ENEMIES'
       /\ Len(enemies') <= MAX_ENEMIES'
       /\ MAX_ENEMIES' <= 20]_vars

\* the spawn that fills the collection up to the cap, after the cap has been
\* raised by a wave
C16_Witness ==
    /\ log.ran /\ log.spawned = 1
    /\ MAX_ENEMIES = 12
    /\ Len(enemies) = MAX_ENEMIES

\* C17: a call of Projectile.update or Bomb.update with dt > 0 strictly
\* lowers the running timer (the projectile's lifetime; the bomb's lifetime
\* while it travels, its linger timer once it has detonated); the entity is
\* switched off by the call that brings its lifetime (bomb: linger timer) to
\* <= 0 and not before by a call; an entity that is off stays off; a bomb
\* detonates in the call that brings its lifetime to <= 0 and stays
\* detonated.
C17_LifetimeMonotone ==
    \A dt \in EntityDts :
        LET pr == player.projectiles[1]
            q == ProjectileUpdate(pr, dt)
            b == player.bombs[1]
            c == BombUpdate(b, dt)
        IN /\ q.lifetime < pr.lifetime
           /\ ~q.active <=> (~pr.active \/ q.lifetime <= 0)
           /\ IF ~b.exploded
              THEN /\ c.lifetime < b.lifetime
                   /\ c.explosion_time = b.explosion_time
                   /\ c.exploded <=> c.lifetime <= 0
                   /\ c.active = b.active
              ELSE /\ c.explosion_time < b.explosion_time
                   /\ c.lifetime = b.lifetime
                   /\ c.exploded
                   /\ ~c.active <=> (~b.active \/ c.explosion_time <= 0)

\* a projectile that was switched off by a hit with 0.7 s of lifetime left,
\* next to a bomb that has detonated and whose linger timer has run out
C17_Witness ==
    /\ player.projectiles # <<>> /\ player.bombs # <<>>
    /\ ~player.projectiles[1].active
    /\ player.projectiles[1].lifetime = 7
    /\ player.bombs[1].exploded
    /\ ~player.bombs[1].active
    /\ player.bombs[1].explosion_time <= 0

\* C18: every fire adds exactly 1 projectile when the active weapon is the
\* railgun and exactly 3 otherwise; each of them carries the active weapon
\* kind, starts at the player's position and has the speed of that kind
\* times LASER_SPEED.
C18_ShotsPerFire ==
    log.fired > 0 =>
        /\ log.fired = IF log.shoot.weapon = "railgun" THEN 1 ELSE 3
        /\ Len(log.shots) = log.fired
        /\ \A i \in DOMAIN log.shots :
              /\ log.shots[i].weapon_type = log.shoot.weapon
              /\ log.shots[i].start_pos = log.shoot.position
              /\ log.shots[i].speed * 100
                     = WEAPON_TYPES[log.shoot.weapon].speed * LASER_SPEED
              /\ log.shots[i].active

\* a railgun shot fired away from the spawn point
C18_Witness ==
    /\ log.ran /\ log.fired = 1
    /\ log.shoot.weapon = "railgun"
    /\ log.shoot.position # SpawnPoint

\* the firing gate of the last call was open: the trigger held or auto-fire
\* due, and the cooldown of the active weapon over
GateOpen ==
    /\ log.shoot.ran
    /\ \/ log.shoot.trigger
       \/ /\ log.shoot.auto_fire
          /\ log.shoot.now - log.shoot.last_auto_fire_time
                 > player.auto_fire_delay
    /\ log.shoot.now - log.shoot.last_shot_time
           > WEAPON_TYPES[log.shoot.weapon].cooldown

\* C19: an update in which the firing gate is open but the aim vector is
\* zero (pointer centred, no or cancelling arrow keys, no hostile in
\* auto-target mode) creates no projectile and leaves last_shot_time and
\* last_auto_fire_time as they were.
C19_ZeroAimNoFire ==
    (GateOpen /\ log.shoot.aim = <<0, 0, 0>>) =>
        /\ log.fired = 0
        /\ player.last_shot_time = log.shoot.last_shot_time
        /\ player.last_auto_fire_time = log.shoot.last_auto_fire_time

\* the gate was open with auto-fire on, in auto-target mode without any
\* hostile
C19_Witness ==
    /\ GateOpen /\ log.shoot.aim = <<0, 0, 0>>
    /\ log.shoot.auto_fire /\ ~log.shoot.trigger
    /\ player.aim_mode = 2
    /\ enemies = <<>>

\* C20: projectiles are created in an update only if the trigger is held or
\* auto-fire is on with more than auto_fire_delay passed since the last
\* auto-fire shot, and more than the cooldown of the active weapon has
\* passed since last_shot_time; a fire sets last_shot_time, so two fires in
\* a row are more than the cooldown of the weapon of the second one apart.
C20_FiringGate ==
    /\ log.fired > 0 =>
          /\ GateOpen
          /\ player.last_shot_time = log.shoot.now
          /\ log.shoot.now - log.shoot.last_shot_time
                 > WEAPON_TYPES[log.shoot.weapon].cooldown
    /\ (log.shoot.ran /\ log.fired = 0) =>
          player.last_shot_time = log.shoot.last_shot_time

\* a plasma shot by auto-fire, 1.1 s after the previous shot
C20_Witness ==
    /\ log.fired = 3
    /\ log.shoot.weapon = "plasma"
    /\ ~log.shoot.trigger /\ log.shoot.auto_fire
    /\ log.shoot.last_shot_time > 0
    /\ log.shoot.now - log.shoot.last_shot_time = 11

\* C21 (as claimed): a contact tested while the player is invincible
\* (respawn_time > 0) or already dead takes no life and removes no enemy, be
\* it the contact of an enemy or of the boss.
C21_ContactSkipped ==
    \A i \in DOMAIN log.contacts :
        LET c == log.contacts[i]
        IN (c.pre.respawn_time > 0 \/ c.pre.is_dead) =>
              /\ c.post.lives = c.pre.lives
              /\ ~c.removed

\* the contact log.contacts[i] is that of an enemy and an earlier entry of
\* the same update is that of an enemy too
LaterEnemyContact(i) ==
    /\ log.contacts[i].who = "enemy"
    /\ \E j \in 1..(i - 1) : log.contacts[j].who = "enemy"

\* C22 (as claimed): an enemy within contact distance of a living,
\* non-invincible player is removed in that update and costs exactly one life
\* (none in cheat mode); of several enemies in contact in one update only the
\* first costs a life and the others stay in the collection.
C22_OnlyFirstContact ==
    \A i \in DOMAIN log.contacts :
        LET c == log.contacts[i]
        IN /\ (c.who = "enemy" /\ ~c.pre.is_dead /\ c.pre.respawn_time <= 0) =>
                 /\ c.removed
                 /\ c.post.lives = c.pre.lives - (IF c.pre.cheat_mode THEN 0 ELSE 1)
           /\ LaterEnemyContact(i) =>
                 /\ ~c.removed
                 /\ c.post.lives = c.pre.lives

\* C22 (amended): an enemy within contact distance of a living,
\* non-invincible player is removed in that update and costs exactly one life
\* (none in cheat mode); outside cheat mode, of several enemies in contact in
\* one update only the first costs a life and is removed, the others stay; in
\* cheat mode every enemy in contact is removed and none costs a life.
C22_ContactCostsOneLife ==
    \A i \in DOMAIN log.contacts :
        LET c == log.contacts[i]
        IN /\ (c.who = "enemy" /\ ~c.pre.is_dead /\ c.pre.respawn_time <= 0) =>
                 /\ c.removed
                 /\ c.post.lives = c.pre.lives - (IF c.pre.cheat_mode THEN 0 ELSE 1)
           /\ (LaterEnemyContact(i) /\ ~c.pre.cheat_mode) =>
                 /\ ~c.removed
                 /\ c.post.lives = c.pre.lives
           /\ (LaterEnemyContact(i) /\ c.pre.cheat_mode /\ c.pre.respawn_time <= 0) =>
                 /\ c.removed
                 /\ c.post.lives = c.pre.lives

\* two enemies in contact in one update, cheat mode off: the first took a
\* life and is gone, the second is still in the collection
C22_Witness ==
    /\ log.ran /\ Len(log.contacts) = 2
    /\ log.contacts[1].who = "enemy" /\ log.contacts[2].who = "enemy"
    /\ ~log.contacts[1].pre.cheat_mode
    /\ log.contacts[1].removed
    /\ log.contacts[1].post.lives = 2
    /\ ~log.contacts[2].removed
    /\ enemies # <<>>

\* C23: in every state, shield_active is true if and only if the shield
\* power-up timer is > 0: a pickup and the cheat toggle set both together,
\* and Player.update clears shield_active in the call that brings the timer
\* to <= 0.
C23_ShieldIffTimer ==
    player.shield_active <=> player.powerups.shield > 0

\* a picked-up shield has run out: its timer went from 1.0 s to -2.0 s in
\* the last update and the shield is down
C23_Witness ==
    /\ log.ran /\ ~player.cheat_mode
    /\ player.powerups.shield < 0
    /\ ~player.shield_active

\* a hit on a target that was hit before, or on one never hit
FreshHit(h) == h.cooldown <= 0 /\ h.since >= 2 /\ h.cooldown_after = 2

\* C24: a projectile damages an enemy or the boss only when the target's hit
\* cooldown is not positive, the hit sets the cooldown to 0.2, no target is
\* damaged by two projectiles of one pass, and a target that was hit is hit
\* again only after 0.2 of dt has been fed to its update
C24_HitCooldown ==
    /\ \A i \in 1..Len(log.ehits) : FreshHit(log.ehits[i])
    /\ \A i \in 1..Len(log.bhits) : FreshHit(log.bhits[i])
    /\ \A i, j \in 1..Len(log.ehits) :
          i # j => log.ehits[i].k # log.ehits[j].k
    /\ Len(log.bhits) <= 1

\* a tank is hit a second time exactly 0.2 after its first hit, in a pass
\* where another projectile on the line had been held off a frame earlier
C24_Witness ==
    \E i \in 1..Len(log.ehits) :
        /\ log.ehits[i].type = "tank"
        /\ log.ehits[i].before < 4
        /\ log.ehits[i].since = 2
        /\ log.ehits[i].cooldown = 0

\* the boss is hit a second time exactly 0.2 after its first hit
C24_WitnessBoss ==
    \E i \in 1..Len(log.bhits) :
        /\ log.bhits[i].before < 10
        /\ log.bhits[i].since = 2

\* the places 1..n of a snapshot of n elements, each once and in order
Visited(n, seen) == seen = [i \in 1..n |-> i]

\* number of live projectiles of ps with lifetime l
CountFlight(ps, l) ==
    Cardinality({i \in 1..Len(ps) : ps[i].active /\ ps[i].lifetime = l})

\* number of particles of ps with lifetime l
RECURSIVE CountDust(_, _)
CountDust(ps, l) ==
    IF ps = <<>> THEN 0
    ELSE (IF Head(ps).lifetime = l THEN Head(ps).n ELSE 0)
         + CountDust(Tail(ps), l)

\* every particle of pre has aged by dt exactly once and the spent ones,
\* and only they, have left
DustOnce(d, dt) ==
    /\ \A i \in 1..Len(d.post) : d.post[i].lifetime > 0
    /\ CountParticles(d.post)
         = CountParticles(SelectSeq(d.pre, LAMBDA b : b.lifetime > dt))
    /\ \A i \in 1..Len(d.pre) :
          d.pre[i].lifetime > dt =>
              CountDust(d.post, d.pre[i].lifetime - dt)
                  = CountDust(d.pre, d.pre[i].lifetime)

\* every projectile of pre has aged by dt exactly once and the inactive
\* ones, and only they, have left
FlightOnce(f, dt) ==
    /\ \A i \in 1..Len(f.post) : f.post[i].active /\ f.post[i].lifetime > 0
    /\ Len(f.post)
         = Cardinality({i \in 1..Len(f.pre) :
                           f.pre[i].active /\ f.pre[i].lifetime > dt})
    /\ \A i \in 1..Len(f.pre) :
          f.pre[i].active /\ f.pre[i].lifetime > dt =>
              CountFlight(f.post, f.pre[i].lifetime - dt)
                  = CountFlight(f.pre, f.pre[i].lifetime)

\* C25: in every update each enemy, power-up, particle and projectile that
\* is in its collection when the pass over that collection begins is
\* processed exactly once, whatever the pass removes
C25_RemovalSafe ==
    /\ Visited(log.pass.enemies0, log.pass.enemies)
    /\ Visited(log.pass.powerups0, log.pass.powerups)
    /\ Visited(log.pass.shots0, log.pass.shots)
    /\ FlightOnce(log.flight, log.dt)
    /\ DustOnce(log.pdust, log.dt)
    /\ DustOnce(log.dust, log.dt)

\* the first of two enemies was removed by its contact and the second was
\* still visited
C25_Witness ==
    /\ log.pass.enemies = <<1, 2>>
    /\ \E i \in 1..Len(log.contacts) :
          log.contacts[i].who = "enemy" /\ log.contacts[i].removed

\* the first of two power-ups was picked up and the second still visited
C25_WitnessPowerup ==
    /\ log.pass.powerups = <<1, 2>>
    /\ Len(powerups) = 1

\* a projectile spent by a hit left while the others aged once
C25_WitnessFlight ==
    /\ Len(log.flight.pre) = 3
    /\ Len(log.flight.post) < 3

\* particles of an explosion ran out while younger ones stayed
C25_WitnessDust ==
    /\ Len(log.dust.pre) >= 2
    /\ Len(log.dust.post) = Len(log.dust.pre) - 1

\* the projectiles of ps that a hit has deactivated
Spent(ps) == {j \in 1..Len(ps) : ~ps[j].active}

\* C26: a projectile deactivated by a hit leaves the player's collection in
\* the next Player.update, so the collision pass of that update, and every
\* later one, is over active projectiles only
C26_SpentProjectileLeaves ==
    [][log'.ran =>
         /\ Len(log'.flight.post)
              <= Len(log'.flight.pre) - Cardinality(Spent(player.projectiles))
         /\ \A j \in 1..Len(log'.flight.post) : log'.flight.post[j].active
         /\ log'.pass.live = [j \in 1..Len(log'.flight.post) |-> TRUE]]_vars

\* a projectile that hit in the last update, with lifetime to spare, was
\* pruned and the collision pass ran over the two that were left
C26_Witness ==
    /\ \E j \in Spent(log.flight.pre) : log.flight.pre[j].lifetime > log.dt
    /\ Len(log.flight.post) = 2
    /\ log.pass.shots = <<1, 2>>

\* C27: the aim-mode and cheat-mode keys act on the frame in which they go
\* down and not while they stay down: a key held from the frame before
\* leaves the mode as it is, a key newly down advances the aim mode by one
\* modulo 3 or flips cheat mode, and aim_mode is one of 0, 1, 2
C27_TogglesEdgeTriggered ==
    [][log'.ran =>
         /\ player'.aim_mode \in 0..2
         /\ "F2" \in log'.keys /\ "F2" \in log.keys
               => player'.aim_mode = player.aim_mode
         /\ "F2" \in log'.keys /\ "F2" \notin log.keys
               => player'.aim_mode = (player.aim_mode + 1) % 3
         /\ "F1" \in log'.keys /\ "F1" \in log.keys
               => player'.cheat_mode = player.cheat_mode
         /\ "F1" \in log'.keys /\ "F1" \notin log.keys
               => player'.cheat_mode = ~player.cheat_mode]_vars

\* the weapon a numeric key selects
WeaponOfKey ==
    [k \in {"1", "2", "3", "4"} |->
        CASE k = "1" -> "laser" [] k = "2" -> "plasma"
          [] k = "3" -> "missile" [] OTHER -> "railgun"]

\* the highest of the weapon keys in keys
TopKey(keys) ==
    IF "4" \in keys THEN "4" ELSE IF "3" \in keys THEN "3"
    ELSE IF "2" \in keys THEN "2" ELSE "1"

\* C28: with several weapon keys down in one frame the weapon of the
\* highest key is selected (4 over 3 over 2 over 1); with none down the
\* weapon stays
C28_HighestKeyWins ==
    [][log'.ran =>
         player'.current_weapon =
             IF log'.keys \cap {"1", "2", "3", "4"} = {}
             THEN player.current_weapon
             ELSE WeaponOfKey[TopKey(log'.keys)]]_vars

\* the invincibility timer is at or below zero, or it was when a call of
\* take_damage of the last update found the player open to damage
GraceOver ==
    \/ player.respawn_time <= 0
    \/ \E i \in 1..Len(log.td) :
          /\ log.td[i].pre.respawn_time <= 0
          /\ log.td[i].post.lives < log.td[i].pre.lives

\* C29: an invincible player who is not dead is, with updates going on,
\* eventually no longer invincible and open to damage again, and the
\* invincibility timer goes up only in a call of take_damage that took a
\* life and left the player alive
C29_InvincibilityEnds ==
    /\ Invincible ~> GraceOver
    /\ [][player'.respawn_time > player.respawn_time =>
            \E i \in 1..Len(log'.td) :
               /\ log'.td[i].pre.respawn_time <= 0
               /\ log'.td[i].post.lives = log'.td[i].pre.lives - 1
               /\ ~log'.td[i].post.is_dead
               /\ log'.td[i].post.respawn_time = player'.respawn_time]_vars

\* the timer of a hit has run out over several short frames
C29_Witness ==
    /\ player.lives = 2
    /\ ~player.cheat_mode
    /\ ~player.is_dead
    /\ player.respawn_time = -1

\* the calls of take_damage of the last update that took a life
LivesTaken ==
    Cardinality({i \in 1..Len(log.td) :
                    log.td[i].post.lives < log.td[i].pre.lives})

\* C30: lives is never negative, a player who is not dead has at least one
\* life, and the contacts of one update take at most one life
C30_LivesInRange ==
    /\ player.lives >= 0
    /\ ~player.is_dead => player.lives >= 1
    /\ LivesTaken <= 1

\* C31: between updates game_over is set exactly when the player is dead,
\* and the player is dead exactly when lives <= 0
C31_GameOverIffDead ==
    /\ game_over <=> player.is_dead
    /\ player.is_dead <=> player.lives <= 0

\* the update that just ran took the last life
C31_Witness ==
    /\ log.ran
    /\ game_over
    /\ player.is_dead
    /\ \E i \in 1..Len(log.td) :
          log.td[i].pre.lives = 1 /\ log.td[i].post.lives = 0

\* C32: between updates every enemy in the collection has health >= 1 and
\* so has the boss when the slot is occupied
C32_HealthPositive ==
    /\ \A k \in 1..Len(enemies) : enemies[k].health >= 1
    /\ boss # None => boss.health >= 1

\* the pass of the last update killed one enemy and wounded another, which
\* is still in the collection
C32_Witness ==
    /\ log.ran
    /\ \E i \in 1..Len(log.ehits) :
          log.ehits[i].health <= 0 /\ log.ehits[i].removed
    /\ \E k \in 1..Len(enemies) :
          enemies[k].health < EnemyInit(enemies[k].type).health

\* the boss was wounded by a projectile or by the super power and is still
\* in its slot
C32_WitnessBoss ==
    /\ log.ran
    /\ boss # None
    /\ boss.health < BossInit(boss.type).health

\* C33: after a Player.update an active super power is never ready, and a
\* burst starts only when the dt fed to Player.update since the burst
\* before it, the starting update included, is at least
\* SUPER_POWER_COOLDOWN, the key being held or not
C33_CooldownGated ==
    /\ player.super_power_active => ~player.super_power_ready
    /\ log.activated => log.sp_gap >= SUPER_POWER_COOLDOWN

\* a second burst, started with the key held in the update that brought the
\* dt since the first to exactly 10 s
C33_Witness ==
    /\ log.activated
    /\ "f" \in log.keys
    /\ log.sp_gap = SUPER_POWER_COOLDOWN
    /\ player.super_power_active

\* C34: an update called on a finished game with the R key down resets the
\* player (lives 3, score 0, not dead, at the spawn point), empties the
\* enemy collection and the boss slot, puts next_boss_score back to
\* boss_spawn_score and clears game_over
C34_RestartOnR ==
    [][game_over /\ "r" \in log'.keys =>
          /\ player'.lives = 3
          /\ player'.score = 0
          /\ ~player'.is_dead
          /\ player'.position = SpawnPoint
          /\ enemies' = <<>>
          /\ boss' = None
          /\ next_boss_score' = boss_spawn_score
          /\ ~game_over']_vars

====
